---- MODULE Spec2Model ----
(***************************************************************************)
(* Model of the LWS ("looking without seeing") instance classifier of      *)
(* GazeEventDetector: src/LWS/subject_analysis/lws_instances.py.           *)
(*                                                                         *)
(* A trial holds an ordered list of gaze events and a behavioral-data      *)
(* table.  calculate_lws_rate calls identify_lws_instances, which builds   *)
(* the per-target identification table, labels the last fixation by the    *)
(* standalone criterion and then walks the fixation pairs backwards.       *)
(*                                                                         *)
(* Floats are modelled by integers; np.nan and np.inf are the sentinels    *)
(* NaN and Inf, and every comparison with NaN is False as in IEEE-754.     *)
(* Times are in milliseconds, the behavioral table keeps microseconds.     *)
(* Visual angles are in units of 0.75 degree, so that the configured       *)
(* THRESHOLD_VISUAL_ANGLE of 1.5 degrees is 2 and has an angle below it.   *)
(*                                                                         *)
(* Two further layers follow the classifier: the event extractor of        *)
(* src/LWS/scripts/extract_events.py, which cuts the boolean columns of    *)
(* the behavioral table into gaze events, and the detectors of             *)
(* src/EventDetectors, which compute those columns from the raw gaze       *)
(* coordinates (the Engbert saccade detector step by step).                *)
(***************************************************************************)
EXTENDS Integers, Sequences, FiniteSets, TLC

\* ------------------------------------------------------------------ bounds
MaxEvents == 3
MaxSamples == 4

\* --------------------------------------------------------------- constants
NaN == -1
Inf == 99
THRESHOLD_VISUAL_ANGLE == 2
MAX_DURATION == 3
MICROSECONDS_PER_MILLISECOND == 1000
MARK_TARGET_SUCCESSFUL_TRIGGER == 211
CONFIRM_TARGET_SUCCESSFUL_TRIGGER == 221
num_targets == 2

FIXATION == "fixation"
SACCADE == "saccade"
BLINK == "blink"

TARGET_IDENTIFICATION_SEQUENCE ==
    <<MARK_TARGET_SUCCESSFUL_TRIGGER, CONFIRM_TARGET_SUCCESSFUL_TRIGGER>>

Targets == 0 .. (num_targets - 1)

\* ------------------------------------------------------- float comparisons
FGt(a, b) == a # NaN /\ b # NaN /\ a > b
FLt(a, b) == a # NaN /\ b # NaN /\ a < b
FLe(a, b) == a # NaN /\ b # NaN /\ a <= b
isnan(a) == a = NaN
isinf(a) == a = Inf

\* ------------------------------------------------------------ small helpers
RECURSIVE SumSeq(_)
SumSeq(s) == IF s = <<>> THEN 0 ELSE Head(s) + SumSeq(Tail(s))

RECURSIVE WhereFrom(_, _)
WhereFrom(mask, from) ==
    IF from > Len(mask) THEN <<>>
    ELSE IF mask[from] THEN <<from>> \o WhereFrom(mask, from + 1)
         ELSE WhereFrom(mask, from + 1)

\* np.where(mask)[0]: the ascending positions at which the boolean mask is True
where(mask) == WhereFrom(mask, 1)

\* ------------------------------------------------------------------ inputs
\* Visual angles and thresholds are drawn around the default threshold, so
\* that "below", "equal to" and "above" the threshold all occur.  The
\* thresholds 0 and Inf are the invalid ones, NaN is accepted by the code.
VisualAngles == {THRESHOLD_VISUAL_ANGLE - 1, THRESHOLD_VISUAL_ANGLE + 1}
Thresholds == {NaN, 0, THRESHOLD_VISUAL_ANGLE, THRESHOLD_VISUAL_ANGLE + 1, Inf}
Triggers == {NaN, MARK_TARGET_SUCCESSFUL_TRIGGER, CONFIRM_TARGET_SUCCESSFUL_TRIGGER}

\* What distinguishes one gaze event from another, before it is placed in time.
FixationKinds ==
    [event_type : {FIXATION}, closest_target_id : Targets,
     visual_angle_to_closest_target : VisualAngles, in_strip : BOOLEAN]
OtherKinds ==
    [event_type : {SACCADE, BLINK}, closest_target_id : {NaN},
     visual_angle_to_closest_target : {NaN}, in_strip : {FALSE}]
EventKinds == FixationKinds \cup OtherKinds

\* Duration in ms of an event of the model: fixations and saccades are
\* short, blinks are long.  Consecutive events are one sample (1 ms) apart,
\* so two fixations are 1 ms apart when adjacent, MAX_DURATION apart around
\* a saccade and further apart around a blink.
DurationOf(event_type) == IF event_type = BLINK THEN 3 ELSE 1

RECURSIVE PlaceInTime(_, _)
\* the events of the given kinds, laid out one after the other from time t
PlaceInTime(kinds, t) ==
    IF kinds = <<>> THEN <<>>
    ELSE LET kd == Head(kinds)
             e == [event_type |-> kd.event_type,
                   start_time |-> t,
                   end_time |-> t + DurationOf(kd.event_type),
                   closest_target_id |-> kd.closest_target_id,
                   visual_angle_to_closest_target |-> kd.visual_angle_to_closest_target,
                   in_strip |-> kd.in_strip]
         IN <<e>> \o PlaceInTime(Tail(kinds), e.end_time + 1)

\* evs is a sorted, non-overlapping event list of at most MaxEvents events
IsEventList(evs) ==
    \E n \in 0 .. MaxEvents : \E kinds \in [1 .. n -> EventKinds] :
        evs = PlaceInTime(kinds, 1)

LastEndTime(evs) == IF evs = <<>> THEN 1 ELSE evs[Len(evs)].end_time

\* a row of the behavioral table: the time stamp, the trigger (NaN when none
\* was sent), the target closest to the gaze and the gaze's distance to it
Row(ms, trigger, target, distance) ==
    [microseconds |-> ms * MICROSECONDS_PER_MILLISECOND, trigger |-> trigger,
     closest_target |-> target, distance |-> distance]

\* the behavioral tables of the classifier's runs: no identification at all,
\* or one mark-and-confirm of one target at one of two times, made from a
\* distance equal to the default threshold
IdentificationTimes == {2, 5}
BehavioralTables ==
    {<<>>} \cup
    {<<Row(t, MARK_TARGET_SUCCESSFUL_TRIGGER, i, THRESHOLD_VISUAL_ANGLE),
       Row(t + 1, CONFIRM_TARGET_SUCCESSFUL_TRIGGER, i, THRESHOLD_VISUAL_ANGLE)>> :
        t \in IdentificationTimes, i \in Targets}

\* every behavioral table of at most MaxSamples rows, one row per millisecond
RowKinds == [trigger : Triggers, closest_target : Targets, distance : VisualAngles]
IsBehavioralTable(bd) ==
    \E n \in 0 .. MaxSamples : \E rows \in [1 .. n -> RowKinds] :
        bd = [p \in 1 .. n |-> Row(p, rows[p].trigger, rows[p].closest_target,
                                   rows[p].distance)]

VARIABLES
    events,                  \* trial.get_gaze_events(): sorted by start_time
    trial_end_time,          \* trial.end_time
    behavioral_data,         \* trial.get_behavioral_data(): rows of the table
    proximity_threshold,     \* argument of calculate_lws_rate
    proximal_fixations_only, \* argument of calculate_lws_rate
    target_info,             \* time_identified column of the identification table
    is_lws_instance,         \* the label array of identify_lws_instances
    standalone,              \* result of the standalone check per event position
    pairwise,                \* result of the pairwise check per event position
    pair,                    \* position in the reversed list of fixation pairs
    pc,                      \* position in calculate_lws_rate
    err,                     \* the exception raised, or "none"
    rate                     \* the value returned by calculate_lws_rate

\* The sample table of a trial and the detection and extraction layer
\* (src/EventDetectors, src/LWS/scripts/extract_events.py).  pc and err are
\* shared with the classifier: one call is followed at a time.
VARIABLES
    microseconds,            \* column cnst.MICROSECONDS of trial.behavioral_data
    is_blink,                \* column is_blink of trial.behavioral_data
    is_saccade,              \* column is_saccade of trial.behavioral_data
    is_fixation,             \* column is_fixation of trial.behavioral_data
    x,                       \* gaze x coordinates (one eye)
    y,                       \* gaze y coordinates (one eye)
    _ScreenMonitor,          \* BaseGazeEvent._ScreenMonitor (class attribute)
    _ViewerDistance,         \* BaseGazeEvent._ViewerDistance (class attribute)
    event_type,              \* argument of extract_event
    drop_outliers,           \* argument of extract_event / extract_all_events
    events_list,             \* the list returned by the extractor
    detector_type,           \* argument of detect_blinks / _saccades / _fixations
    derivation_window_size,  \* EngbertSaccadeDetector.__derivation_window_size
    lambda_noise_threshold,  \* EngbertSaccadeDetector.__lambda_noise_threshold
    _min_samples_between_events, \* BaseDetector._min_samples_between_events
    _min_samples_within_event,   \* BaseDetector._min_samples_within_event
    is_saccade_candidate,    \* result of _find_candidates
    separate_saccade_idxs,   \* the candidate indices split into saccades
    saccades_start_end_idxs, \* result of _find_start_end_indices
    is_detected,             \* the boolean array returned by a detector
    detect_call              \* the detection function that was called

VARIABLES
    keywords,                \* the keywords given to _get_event_detector
    event_detector,          \* the detector returned by _get_event_detector
    event_timestamps,        \* argument timestamps of BaseGazeEvent.__init__
    gaze_event,              \* the event that was constructed: none, or one
    is_processed,            \* LWSTrial.__is_processed
    gaze_events,             \* LWSTrial.__gaze_events
    trial_call,              \* the operation last called on the trial
    worker_pc,               \* per worker: how far it is with its trial
    worker_monitor,          \* per worker: the screen monitor of its trial
    worker_distance,         \* per worker: the viewer distance of its trial
    worker_events            \* per worker: the events it has built

\* the state of the classifier, without the shared pc and err
lws == <<events, trial_end_time, behavioral_data, proximity_threshold,
         proximal_fixations_only, target_info, is_lws_instance, standalone,
         pairwise, pair, rate>>

\* the sample table and the class-level configuration
samples == <<microseconds, is_blink, is_saccade, is_fixation, x, y,
           _ScreenMonitor, _ViewerDistance>>

\* the state of the extractor
extractor == <<event_type, drop_outliers, events_list>>

\* the state of a detector
detector == <<detector_type, derivation_window_size, lambda_noise_threshold,
              _min_samples_between_events, _min_samples_within_event,
              is_saccade_candidate, separate_saccade_idxs,
              saccades_start_end_idxs, is_detected, detect_call>>

pipeline == <<samples, extractor, detector>>

\* the call of the detector factory
factory == <<keywords, event_detector>>

\* the construction of one gaze event
construction == <<event_timestamps, gaze_event>>

\* the fields of an LWSTrial next to its behavioral data
trial_object == <<is_processed, gaze_events, trial_call>>

\* the workers that process one trial each
workers == <<worker_pc, worker_monitor, worker_distance, worker_events>>

\* what the classifier, the extractor and the detectors leave alone
session == <<factory, construction, trial_object, workers>>

vars == <<lws, pc, err, pipeline, session>>

\* Python's None
None == "None"

\* no sample table is loaded and no detector or extractor has been called
NoTable ==
    /\ microseconds = <<>> /\ is_blink = <<>> /\ is_saccade = <<>>
    /\ is_fixation = <<>> /\ x = <<>> /\ y = <<>>
    /\ _ScreenMonitor = None /\ _ViewerDistance = None

ExtractorIdle ==
    /\ event_type = None /\ drop_outliers = FALSE /\ events_list = <<>>

DetectorIdle ==
    /\ detector_type = None
    /\ derivation_window_size = 0 /\ lambda_noise_threshold = 0
    /\ _min_samples_between_events = 0 /\ _min_samples_within_event = 0
    /\ is_saccade_candidate = <<>> /\ separate_saccade_idxs = <<>>
    /\ saccades_start_end_idxs = <<>>
    /\ is_detected = <<>> /\ detect_call = None

FactoryIdle ==
    /\ keywords = {} /\ event_detector = None

ConstructionIdle ==
    /\ event_timestamps = <<>> /\ gaze_event = <<>>

\* LWSTrial.__init__ without gaze_events, lines 25 and 30-31
NewTrial ==
    /\ is_processed = FALSE /\ gaze_events = <<>> /\ trial_call = None

\* no worker is running
NoWorkers ==
    /\ worker_pc = <<>> /\ worker_monitor = <<>>
    /\ worker_distance = <<>> /\ worker_events = <<>>

SessionIdle == FactoryIdle /\ ConstructionIdle /\ NewTrial /\ NoWorkers

\* ---------------------------------------------- _target_identification_data
\* Utils.array_utils.find_sequences_in_sparse_array: the occurrences of
\* `sequence` among the non-NaN entries of `triggers`, each as the pair
\* <<first_idx, last_idx>> of the positions of its first and last entry, in
\* ascending order.
find_sequences_in_sparse_array(triggers, sequence) ==
    LET dense == where([p \in 1 .. Len(triggers) |-> ~isnan(triggers[p])])
        m == Len(sequence)
        Match(st) == \A j \in 1 .. m : triggers[dense[st + j - 1]] = sequence[j]
        RECURSIVE From(_)
        From(st) ==
            IF st + m - 1 > Len(dense) THEN <<>>
            ELSE IF Match(st) THEN <<<<dense[st], dense[st + m - 1]>>>> \o From(st + 1)
                 ELSE From(st + 1)
    IN From(1)

\* behavioral_df[behavioral_df["closest_target"] == i]
ProximalBehavioralDf(bd, i) == SelectSeq(bd, LAMBDA row : row.closest_target = i)

\* identification_idxs of target i
IdentificationIdxs(bd, i) ==
    LET df == ProximalBehavioralDf(bd, i)
    IN find_sequences_in_sparse_array([p \in 1 .. Len(df) |-> df[p].trigger],
                                      TARGET_IDENTIFICATION_SEQUENCE)

\* mutant: only the first identification of a target is looked at
TimeIdentified_FirstAttemptOnly(bd, i, threshold) ==
    LET df == ProximalBehavioralDf(bd, i)
        identification_idxs == IdentificationIdxs(bd, i)
    IN IF Len(identification_idxs) = 0 THEN NaN
       ELSE IF ~FLt(df[identification_idxs[1][1]].distance, threshold) THEN NaN
       ELSE df[identification_idxs[1][1]].microseconds \div MICROSECONDS_PER_MILLISECOND

\* One iteration of the loop over the targets: time_identified of target i,
\* for a threshold that is a number.
TimeIdentified(bd, i, threshold) ==
    LET df == ProximalBehavioralDf(bd, i)
        identification_idxs == IdentificationIdxs(bd, i)
        identification_distances ==
            [n \in 1 .. Len(identification_idxs) |-> df[identification_idxs[n][1]].distance]
        proximal_identifications ==
            where([n \in 1 .. Len(identification_idxs) |->
                      FLt(identification_distances[n], threshold)])
    IN IF Len(identification_idxs) = 0 THEN NaN
       ELSE IF Len(proximal_identifications) = 0 THEN NaN
       ELSE LET first_idx == identification_idxs[proximal_identifications[1]][1]
            IN df[first_idx].microseconds \div MICROSECONDS_PER_MILLISECOND

\* The exception _target_identification_data raises, or "none": an invalid
\* threshold is rejected; a NaN threshold is replaced by None, and comparing
\* the identification distances with None is a TypeError.
TargetIdentificationError(bd, threshold) ==
    IF ~isnan(threshold) /\ (threshold <= 0 \/ isinf(threshold)) THEN "ValueError"
    ELSE IF isnan(threshold) /\ \E i \in Targets : Len(IdentificationIdxs(bd, i)) > 0
         THEN "TypeError"
    ELSE "none"

\* the time_identified column of the table _target_identification_data returns
TargetIdentificationData(bd, threshold) ==
    [i \in Targets |-> TimeIdentified(bd, i, threshold)]

\* ------------------------------------------------------------ the criteria
\* mutant: a fixation that ends exactly when its target is identified passes
standalone_EndNotAfter(fixation, table, threshold, trial_end) ==
    IF fixation.end_time = trial_end THEN FALSE
    ELSE IF FGt(fixation.visual_angle_to_closest_target, threshold) THEN FALSE
    ELSE LET time_identified == table[fixation.closest_target_id]
         IN IF isnan(time_identified) THEN TRUE
            ELSE FLe(fixation.end_time, time_identified)

\* mutant: the end of the trial is not looked at
standalone_NoTrialEnd(fixation, table, threshold, trial_end) ==
    IF FGt(fixation.visual_angle_to_closest_target, threshold) THEN FALSE
    ELSE LET time_identified == table[fixation.closest_target_id]
         IN IF isnan(time_identified) THEN TRUE
            ELSE FLt(fixation.end_time, time_identified)

\* (table: the time_identified column; trial_end: fixation.trial.end_time)
_check_lws_instance_standalone_criteria(fixation, table, threshold, trial_end) ==
    IF fixation.end_time = trial_end THEN FALSE
    ELSE IF FGt(fixation.visual_angle_to_closest_target, threshold) THEN FALSE
    ELSE LET time_identified == table[fixation.closest_target_id]
         IN IF isnan(time_identified) THEN TRUE
            ELSE FLt(fixation.end_time, time_identified)

\* mutant: a gap equal to MAX_DURATION already counts as too long
pairwise_GapNotBelow(curr_fixation, next_fixation, is_next) ==
    IF next_fixation.in_strip THEN FALSE
    ELSE IF next_fixation.closest_target_id # curr_fixation.closest_target_id THEN TRUE
    ELSE IF next_fixation.start_time - curr_fixation.end_time >= MAX_DURATION THEN TRUE
    ELSE is_next = 1

\* mutant: the label of the next fixation is not propagated
pairwise_NoPropagation(curr_fixation, next_fixation, is_next) ==
    IF next_fixation.in_strip THEN FALSE
    ELSE IF next_fixation.closest_target_id # curr_fixation.closest_target_id THEN TRUE
    ELSE IF next_fixation.start_time - curr_fixation.end_time > MAX_DURATION THEN TRUE
    ELSE FALSE

\* (is_next: is_next_fixation_lws_instance, the label of next_fixation)
_check_lws_instance_pairwise_criteria(curr_fixation, next_fixation, is_next) ==
    IF next_fixation.in_strip THEN FALSE
    ELSE IF next_fixation.closest_target_id # curr_fixation.closest_target_id THEN TRUE
    ELSE IF next_fixation.start_time - curr_fixation.end_time > MAX_DURATION THEN TRUE
    ELSE is_next = 1

\* ------------------------------------------------- identify_lws_instances
IsFixation(e) == e.event_type = FIXATION

\* np.where([e.event_type() == FIXATION for e in events])[0]
fixation_idxs == where([p \in 1 .. Len(events) |-> IsFixation(events[p])])

\* Python's bool as the number numpy stores and sums
AsLabel(b) == IF b THEN 1 ELSE 0

\* np.nansum
nansum(labels) == SumSeq([p \in 1 .. Len(labels) |-> IF isnan(labels[p]) THEN 0 ELSE labels[p]])

\* an array of the length of `events` filled with NaN: np.full_like(events, np.nan)
full_like_nan == [p \in 1 .. Len(events) |-> NaN]

\* The call, for any value of the argument proximity_threshold, and line 50:
\* target_info = _target_identification_data(trial, proximity_threshold)
IdentifyTargets ==
    /\ pc = "start"
    /\ \E threshold \in Thresholds :
         LET e == TargetIdentificationError(behavioral_data, threshold)
         IN /\ proximity_threshold' = threshold
            /\ IF e # "none"
               THEN /\ pc' = "raised"
                    /\ err' = e
                    /\ UNCHANGED target_info
               ELSE /\ pc' = "base"
                    /\ target_info' = TargetIdentificationData(behavioral_data, threshold)
                    /\ UNCHANGED err
    /\ UNCHANGED <<events, trial_end_time, behavioral_data, proximal_fixations_only,
                   is_lws_instance, standalone, pairwise, pair, rate>>
    /\ UNCHANGED <<pipeline, session>>

\* lines 51-58 and 61: the label array is created and the last fixation is
\* labeled by the standalone criterion alone; fixation_idxs[-1] of a trial
\* without fixations is an IndexError.
ClassifyLastFixation ==
    /\ pc = "base"
    /\ IF Len(fixation_idxs) = 0
       THEN /\ pc' = "raised"
            /\ err' = "IndexError"
            /\ UNCHANGED <<is_lws_instance, standalone, pair>>
       ELSE LET last_fixation_idx == fixation_idxs[Len(fixation_idxs)]
                alone == _check_lws_instance_standalone_criteria(
                             events[last_fixation_idx], target_info,
                             proximity_threshold, trial_end_time)
            IN /\ is_lws_instance' =
                      [full_like_nan EXCEPT ![last_fixation_idx] = AsLabel(alone)]
               /\ standalone' = [full_like_nan EXCEPT ![last_fixation_idx] = AsLabel(alone)]
               /\ pair' = Len(fixation_idxs) - 1
               /\ pc' = IF Len(fixation_idxs) - 1 = 0 THEN "returned" ELSE "loop"
               /\ UNCHANGED err
    /\ pairwise' = full_like_nan
    /\ UNCHANGED <<events, trial_end_time, behavioral_data, proximity_threshold,
                   proximal_fixations_only, target_info, rate>>
    /\ UNCHANGED <<pipeline, session>>

\* mutant: a fixation that fails the standalone criterion keeps its NaN
LabelOfPair_FailedLeftUnassigned(alone, paired) ==
    IF ~alone THEN NaN
    ELSE IF ~paired THEN 0
    ELSE 1

\* mutant: the pairwise criterion is ignored
LabelOfPair_StandaloneOnly(alone, paired) == IF alone THEN 1 ELSE 0

\* lines 65-75: the label one iteration of the loop gives the current
\* fixation; the pairwise criterion is only consulted when the standalone
\* criterion holds.
LabelOfPair(alone, paired) ==
    IF ~alone THEN 0
    ELSE IF ~paired THEN 0
    ELSE 1

\* lines 62-75: one iteration of the loop over the reversed list of pairs of
\* consecutive fixations; after the last one the label array is returned.
ClassifyPair ==
    /\ pc = "loop"
    /\ LET curr_fixation_idx == fixation_idxs[pair]
           next_fixation_idx == fixation_idxs[pair + 1]
           curr_fixation == events[curr_fixation_idx]
           next_fixation == events[next_fixation_idx]
           alone == _check_lws_instance_standalone_criteria(
                        curr_fixation, target_info, proximity_threshold, trial_end_time)
           paired == _check_lws_instance_pairwise_criteria(
                         curr_fixation, next_fixation, is_lws_instance[next_fixation_idx])
       IN /\ standalone' = [standalone EXCEPT ![curr_fixation_idx] = AsLabel(alone)]
          /\ pairwise' = IF alone
                         THEN [pairwise EXCEPT ![curr_fixation_idx] = AsLabel(paired)]
                         ELSE pairwise
          /\ is_lws_instance' =
                 [is_lws_instance EXCEPT ![curr_fixation_idx] = LabelOfPair(alone, paired)]
    /\ pair' = pair - 1
    /\ pc' = IF pair - 1 = 0 THEN "returned" ELSE "loop"
    /\ UNCHANGED <<events, trial_end_time, behavioral_data, proximity_threshold,
                   proximal_fixations_only, target_info, err, rate>>
    /\ UNCHANGED <<pipeline, session>>

\* --------------------------------------------------------- calculate_lws_rate
\* mutant: a fixation exactly at the threshold is not counted as proximal
CountedFixations_BelowOnly(only_proximal, threshold) ==
    LET IsCounted(e) ==
            /\ e.event_type = FIXATION
            /\ only_proximal => FLt(e.visual_angle_to_closest_target, threshold)
    IN where([p \in 1 .. Len(events) |-> IsCounted(events[p])])

\* trial.get_gaze_events(event_type=FIXATION), filtered when only the
\* target-proximal fixations are counted
CountedFixations(only_proximal, threshold) ==
    LET IsCounted(e) ==
            /\ IsFixation(e)
            /\ only_proximal => FLe(e.visual_angle_to_closest_target, threshold)
    IN where([p \in 1 .. Len(events) |-> IsCounted(events[p])])

\* mutant: zero counted fixations always give the rate 0
RateOrError_ZeroRate(num_lws_instances, num_fixations) ==
    IF num_fixations > 0
    THEN [raises |-> "none", value |-> <<num_lws_instances, num_fixations>>]
    ELSE [raises |-> "none", value |-> <<0, 1>>]

\* lines 29-33: what calculate_lws_rate does with the two counts; the rate
\* is kept as the pair <<numerator, denominator>>, the integer 0 as <<0, 1>>.
RateOrError(num_lws_instances, num_fixations) ==
    IF num_fixations > 0
    THEN [raises |-> "none", value |-> <<num_lws_instances, num_fixations>>]
    ELSE IF num_lws_instances = 0
    THEN [raises |-> "none", value |-> <<0, 1>>]
    ELSE [raises |-> "ZeroDivisionError", value |-> <<>>]

\* lines 24-33, for either value of the flag proximal_fixations_only
CalculateLwsRate ==
    /\ pc = "returned"
    /\ \E only_proximal \in BOOLEAN :
         LET num_lws_instances == nansum(is_lws_instance)
             num_fixations == Len(CountedFixations(only_proximal, proximity_threshold))
             outcome == RateOrError(num_lws_instances, num_fixations)
         IN /\ proximal_fixations_only' = only_proximal
            /\ rate' = outcome.value
            /\ err' = outcome.raises
            /\ pc' = IF outcome.raises = "none" THEN "done" ELSE "raised"
    /\ UNCHANGED <<events, trial_end_time, behavioral_data, proximity_threshold,
                   target_info, is_lws_instance, standalone, pairwise, pair>>
    /\ UNCHANGED <<pipeline, session>>

\* ----------------------------------------------------------- specifications
\* the state before calculate_lws_rate is called on a given trial; the two
\* arguments hold their defaults until the call supplies them
Before ==
    /\ proximity_threshold = THRESHOLD_VISUAL_ANGLE
    /\ proximal_fixations_only = FALSE
    /\ target_info = [i \in Targets |-> NaN]
    /\ is_lws_instance = <<>>
    /\ standalone = <<>>
    /\ pairwise = <<>>
    /\ pair = 0
    /\ pc = "start"
    /\ err = "none"
    /\ rate = <<>>
    /\ NoTable /\ ExtractorIdle /\ DetectorIdle /\ SessionIdle

Init ==
    /\ IsEventList(events)
    /\ trial_end_time \in {LastEndTime(events), LastEndTime(events) + 1}
    /\ behavioral_data \in BehavioralTables
    /\ Before

Next ==
    \/ IdentifyTargets
    \/ ClassifyLastFixation
    \/ ClassifyPair
    \/ CalculateLwsRate

Spec == Init /\ [][Next]_vars

\* _target_identification_data alone, on every behavioral table
InitIdent ==
    /\ events = <<>>
    /\ trial_end_time = 1
    /\ IsBehavioralTable(behavioral_data)
    /\ Before

NextIdent == IdentifyTargets

SpecIdent == InitIdent /\ [][NextIdent]_vars

\* ================================================================== claims
\* state functions the claims are stated with, independent of the loop
FixationPositions == {p \in 1 .. Len(events) : events[p].event_type = FIXATION}

LastFixationPosition == CHOOSE p \in FixationPositions : \A q \in FixationPositions : q <= p

\* the immediate successor fixation of the fixation at position p
NextFixationAfter(p) ==
    CHOOSE q \in FixationPositions : q > p /\ \A r \in FixationPositions : r > p => q <= r

\* the fixation at position p has a successor fixation
HasNextFixation(p) == \E q \in FixationPositions : q > p

\* identify_lws_instances has returned its label array
Labeled == pc \in {"returned", "done"} \/ (pc = "raised" /\ err = "ZeroDivisionError")

\* the label array exists: the last fixation has been classified
Classifying == pc = "loop" \/ Labeled

\* the threshold is one _target_identification_data accepts as a number
ValidThreshold == ~isnan(proximity_threshold) /\ proximity_threshold > 0 /\ ~isinf(proximity_threshold)

StandaloneHolds(p) ==
    _check_lws_instance_standalone_criteria(events[p], target_info, proximity_threshold,
                                            trial_end_time)

\* ---- C1
\* C1: in the returned label array every fixation but the last is True iff
\* its standalone criterion holds and its pairwise criterion, evaluated
\* against its immediate successor fixation and that successor's label,
\* holds; the last fixation carries its standalone criterion alone.
C1_LabelIsStandaloneAndPairwise ==
    Labeled =>
        \A p \in FixationPositions :
            IF p = LastFixationPosition
            THEN is_lws_instance[p] = AsLabel(StandaloneHolds(p))
            ELSE LET q == NextFixationAfter(p)
                 IN is_lws_instance[p] =
                        AsLabel(StandaloneHolds(p) /\
                                _check_lws_instance_pairwise_criteria(
                                    events[p], events[q], is_lws_instance[q]))

\* a returned array with a True non-last fixation, a non-last fixation that
\* passes the standalone criterion and fails the pairwise one, and a True
\* last fixation
C1_Witness ==
    /\ Labeled
    /\ is_lws_instance[LastFixationPosition] = 1
    /\ \E p \in FixationPositions : p # LastFixationPosition /\ is_lws_instance[p] = 1
    /\ \E p \in FixationPositions :
           p # LastFixationPosition /\ StandaloneHolds(p) /\ is_lws_instance[p] = 0

\* ---- C2
\* the standalone criterion as the claim words it, for a fixation that does
\* not end with the trial
C2_Expected(f) ==
    IF f.visual_angle_to_closest_target # NaN /\ proximity_threshold # NaN
       /\ f.visual_angle_to_closest_target > proximity_threshold
    THEN 0
    ELSE IF target_info[f.closest_target_id] = NaN THEN 1
    ELSE IF f.end_time < target_info[f.closest_target_id] THEN 1
    ELSE 0

\* C2: for a fixation whose end_time differs from the trial end time the
\* standalone check returns False when the visual angle exceeds the
\* threshold (an angle equal to it is proximal), else True when the closest
\* target was never identified, else True iff end_time < time_identified.
C2_StandaloneDecision ==
    \A p \in 1 .. Len(standalone) :
        (standalone[p] # NaN /\ events[p].end_time # trial_end_time)
            => standalone[p] = C2_Expected(events[p])

\* both boundaries at once: a fixation exactly at the threshold angle that
\* ends exactly when its target is identified, and is rejected for the latter
C2_Witness ==
    \E p \in 1 .. Len(standalone) :
        /\ standalone[p] = 0
        /\ events[p].end_time # trial_end_time
        /\ events[p].visual_angle_to_closest_target = proximity_threshold
        /\ events[p].end_time = target_info[events[p].closest_target_id]

\* ---- C3
\* C3: a fixation whose end_time equals the trial's end time fails the
\* standalone criterion, and is labeled False, whatever its visual angle and
\* whether or not its target was identified; the classification goes on.
C3_TrialEndIsNeverLws ==
    \A p \in FixationPositions :
        (Classifying /\ events[p].end_time = trial_end_time)
            => standalone[p] = 0 /\ is_lws_instance[p] = 0

\* a proximal fixation on a never-identified target that ends with the trial
C3_Witness ==
    /\ Classifying
    /\ \E p \in FixationPositions :
           /\ events[p].end_time = trial_end_time
           /\ events[p].visual_angle_to_closest_target <= proximity_threshold
           /\ ValidThreshold
           /\ target_info[events[p].closest_target_id] = NaN
           /\ standalone[p] = 0

\* ---- C4
\* the pairwise criterion as the claim words it
C4_Expected(curr, next, next_label) ==
    IF next.in_strip THEN 0
    ELSE IF next.closest_target_id # curr.closest_target_id THEN 1
    ELSE IF next.start_time - curr.end_time > MAX_DURATION THEN 1
    ELSE next_label

\* C4: the pairwise check is False when the next fixation is in the
\* target-helper strip, else True when it is on another target, else True
\* when it starts more than MAX_DURATION after the current one ended, else
\* the label of the next fixation.
C4_PairwisePriority ==
    \A p \in 1 .. Len(pairwise) :
        pairwise[p] # NaN =>
            LET q == NextFixationAfter(p)
            IN pairwise[p] = C4_Expected(events[p], events[q], is_lws_instance[q])

\* a gap of exactly MAX_DURATION to a same-target fixation outside the strip
\* that is not an LWS instance: the gap does not qualify
C4_Witness ==
    \E p \in 1 .. Len(pairwise) :
        /\ pairwise[p] = 0
        /\ LET q == NextFixationAfter(p)
           IN /\ ~events[q].in_strip
              /\ events[q].closest_target_id = events[p].closest_target_id
              /\ events[q].start_time - events[p].end_time = MAX_DURATION
              /\ is_lws_instance[q] = 0

\* ---- C5
\* three consecutive fixations on the same closest target, no more than
\* MAX_DURATION apart, the third of which passes the standalone criterion
C5_Chains ==
    {c \in {<<p, NextFixationAfter(p), NextFixationAfter(NextFixationAfter(p))>> :
                p \in {r \in FixationPositions :
                          HasNextFixation(r) /\ HasNextFixation(NextFixationAfter(r))}} :
        /\ events[c[1]].closest_target_id = events[c[2]].closest_target_id
        /\ events[c[2]].closest_target_id = events[c[3]].closest_target_id
        /\ events[c[2]].start_time - events[c[1]].end_time <= MAX_DURATION
        /\ events[c[3]].start_time - events[c[2]].end_time <= MAX_DURATION
        /\ StandaloneHolds(c[3])}

\* C5 as stated: along such a chain the second fixation has the label of the
\* third and the first the label of the second.
C5_ChainPropagation ==
    Labeled =>
        \A c \in C5_Chains :
            /\ is_lws_instance[c[2]] = is_lws_instance[c[3]]
            /\ is_lws_instance[c[1]] = is_lws_instance[c[2]]

\* C5 as amended: the labels propagate along the chain when, in addition, the
\* first and the second fixation pass the standalone criterion themselves and
\* neither the second nor the third lies in the target-helper strip.
C5_ChainPropagationAmended ==
    Labeled =>
        \A c \in C5_Chains :
            (/\ StandaloneHolds(c[1])
             /\ StandaloneHolds(c[2])
             /\ ~events[c[2]].in_strip
             /\ ~events[c[3]].in_strip)
            => /\ is_lws_instance[c[2]] = is_lws_instance[c[3]]
               /\ is_lws_instance[c[1]] = is_lws_instance[c[2]]

\* such a chain, around a saccade, with the label True carried to its head
C5_Witness ==
    /\ Labeled
    /\ \E c \in C5_Chains :
           /\ StandaloneHolds(c[1])
           /\ StandaloneHolds(c[2])
           /\ ~events[c[2]].in_strip
           /\ ~events[c[3]].in_strip
           /\ is_lws_instance[c[1]] = 1
           /\ is_lws_instance[c[3]] = 1

\* ---- C6
\* C6: for every trial identify_lws_instances returns an array as long as the
\* trial's gaze events, True or False at the fixations and NaN elsewhere
\* (no trial makes it fail).
C6_LabelArrayAligned ==
    /\ err # "IndexError"
    /\ Labeled =>
           /\ Len(is_lws_instance) = Len(events)
           /\ \A p \in 1 .. Len(events) :
                  IF events[p].event_type = FIXATION
                  THEN is_lws_instance[p] \in {0, 1}
                  ELSE is_lws_instance[p] = NaN

\* ---- C7
NumLwsInstances == Cardinality({p \in 1 .. Len(is_lws_instance) : is_lws_instance[p] = 1})

\* the fixations the claims count: all of them or, with
\* proximal_fixations_only, those no further from their target than the threshold
NumCounted ==
    Cardinality({p \in FixationPositions :
        proximal_fixations_only =>
            /\ proximity_threshold # NaN
            /\ events[p].visual_angle_to_closest_target <= proximity_threshold})

\* calculate_lws_rate has returned or raised after counting
Rated == pc = "done" \/ (pc = "raised" /\ err = "ZeroDivisionError")

\* C7: when at least one fixation is counted, calculate_lws_rate returns the
\* number of True labels over the number of counted fixations.
C7_RateIsInstancesOverFixations ==
    (Rated /\ NumCounted > 0) => (pc = "done" /\ rate = <<NumLwsInstances, NumCounted>>)

\* three fixations, two of them proximal and counted, one LWS instance: 1/2
C7_Witness ==
    /\ pc = "done"
    /\ proximal_fixations_only
    /\ Cardinality(FixationPositions) = 3
    /\ rate = <<1, 2>>

\* ---- C8
\* C8: for a trial without fixations calculate_lws_rate raises nothing and
\* returns 0 (whenever the threshold is a valid one).
C8_NoFixationsRateZero ==
    (FixationPositions = {} /\ ValidThreshold) =>
        /\ pc # "raised"
        /\ pc = "done" => rate = <<0, 1>>

\* ---- C9
\* C9: when no fixation is counted and the label array holds a True,
\* calculate_lws_rate raises ZeroDivisionError and returns nothing.
C9_ZeroFixationsNonzeroInstances ==
    (Rated /\ NumCounted = 0 /\ NumLwsInstances > 0)
        => (pc = "raised" /\ err = "ZeroDivisionError" /\ rate = <<>>)

\* the error has been raised for a trial with an LWS instance
C9_Witness ==
    /\ pc = "raised"
    /\ err = "ZeroDivisionError"
    /\ NumCounted = 0
    /\ NumLwsInstances > 0

\* ---- C10
\* the identifications of target i: the first row of each occurrence of the
\* identification sequence among the rows whose closest target is i
IdentificationRows(i) ==
    LET df == ProximalBehavioralDf(behavioral_data, i)
        idxs == IdentificationIdxs(behavioral_data, i)
    IN {df[idxs[n][1]] : n \in 1 .. Len(idxs)}

\* the time in ms of the earliest row of a non-empty set of rows
EarliestTime(rows) ==
    (CHOOSE r \in rows : \A r2 \in rows : r.microseconds <= r2.microseconds).microseconds
        \div MICROSECONDS_PER_MILLISECOND

\* C10 as stated, "within the threshold" being a distance <= the threshold:
\* time_identified is the time of the earliest identification made from within
\* the threshold, NaN when there is none.
C10_EarliestIdentificationWithin ==
    pc = "base" =>
        \A i \in Targets :
            LET within == {r \in IdentificationRows(i) : r.distance <= proximity_threshold}
            IN target_info[i] = IF within = {} THEN NaN ELSE EarliestTime(within)

\* C10 as amended: whenever the table is returned, time_identified is the time
\* of the earliest identification made from strictly below the threshold, NaN
\* when there is none.
C10_EarliestIdentificationBelow ==
    pc = "base" =>
        \A i \in Targets :
            LET below == {r \in IdentificationRows(i) : r.distance < proximity_threshold}
            IN target_info[i] = IF below = {} THEN NaN ELSE EarliestTime(below)

\* a target identified twice, first from beyond the threshold and then from
\* below it: the second identification gives time_identified
C10_Witness ==
    /\ pc = "base"
    /\ \E i \in Targets :
           \E far \in IdentificationRows(i) : \E near \in IdentificationRows(i) :
               /\ far.microseconds < near.microseconds
               /\ far.distance > proximity_threshold
               /\ near.distance < proximity_threshold
               /\ target_info[i] = near.microseconds \div MICROSECONDS_PER_MILLISECOND

\* ============================================================ the extractor
\* src/LWS/scripts/extract_events.py and src/GazeEvents.  Time stamps are in
\* milliseconds, one sample per millisecond; the duration thresholds of the
\* event classes are in sample periods.
MaxMask == 5
DEFAULT_MINIMUM_SAMPLES_PER_EVENT == 2
DEFAULT_BLINK_MINIMUM_DURATION == 2
DEFAULT_SACCADE_MINIMUM_DURATION == 1
DEFAULT_FIXATION_MINIMUM_DURATION == 3

\* np.nonzero(mask)[0]: the ascending 0-based indices at which mask is True
nonzero(array) == [k \in 1 .. Len(where(array)) |-> where(array)[k] - 1]

\* np.diff(a)
diff(a) == [k \in 1 .. (Len(a) - 1) |-> a[k + 1] - a[k]]

\* np.split(array, cuts): the pieces array[:c1], array[c1:c2], ..., array[ck:]
split(array, cuts) ==
    [j \in 1 .. (Len(cuts) + 1) |->
        SubSeq(array, (IF j = 1 THEN 0 ELSE cuts[j - 1]) + 1,
                      IF j = Len(cuts) + 1 THEN Len(array) ELSE cuts[j])]

\* array[idxs] with 0-based indices
take(array, idxs) == [k \in 1 .. Len(idxs) |-> array[idxs[k] + 1]]

\* mutant: a jump of two indices still continues the event
split_JumpOfTwoContinues(array) ==
    LET event_idxs == nonzero(array)
        event_end_idxs == nonzero([k \in 1 .. (Len(event_idxs) - 1) |-> diff(event_idxs)[k] > 2])
    IN IF Len(event_idxs) = 0 THEN <<>>
       ELSE split(event_idxs, [k \in 1 .. Len(event_end_idxs) |-> event_end_idxs[k] + 1])

\* the lists of the sample indices that belong to the same event
_split_samples_between_events(array) ==
    LET event_idxs == nonzero(array)
        event_end_idxs == nonzero([k \in 1 .. (Len(event_idxs) - 1) |-> diff(event_idxs)[k] # 1])
    IN IF Len(event_idxs) = 0 THEN <<>>
       ELSE split(event_idxs, [k \in 1 .. Len(event_end_idxs) |-> event_end_idxs[k] + 1])

\* mutant: a negative time stamp is accepted
GazeEventError_NegativeAccepted(timestamps) ==
    IF _ScreenMonitor = None THEN "ValueError: ScreenMonitor"
    ELSE IF _ViewerDistance = None THEN "ValueError: ViewerDistance"
    ELSE IF Len(timestamps) < DEFAULT_MINIMUM_SAMPLES_PER_EVENT THEN "ValueError: samples"
    ELSE IF \E k \in 1 .. Len(timestamps) : isnan(timestamps[k]) \/ isinf(timestamps[k])
         THEN "ValueError: NaN"
    ELSE "none"

\* BaseGazeEvent.__init__ called without sm and viewer_distance: the error it
\* raises for these time stamps, or "none".  All four are ValueErrors.
GazeEventError(timestamps) ==
    IF _ScreenMonitor = None THEN "ValueError: ScreenMonitor"
    ELSE IF _ViewerDistance = None THEN "ValueError: ViewerDistance"
    ELSE IF Len(timestamps) < DEFAULT_MINIMUM_SAMPLES_PER_EVENT THEN "ValueError: samples"
    ELSE IF \E k \in 1 .. Len(timestamps) : isnan(timestamps[k]) \/ isinf(timestamps[k])
         THEN "ValueError: NaN"
    ELSE IF \E k \in 1 .. Len(timestamps) : timestamps[k] < 0 THEN "ValueError: negative"
    ELSE "none"

\* a successfully constructed event; start_time and end_time are its
\* properties timestamps[0] and timestamps[-1]
GazeEvent(type, timestamps) ==
    [event_type |-> type, timestamps |-> timestamps,
     start_time |-> timestamps[1], end_time |-> timestamps[Len(timestamps)]]

duration(event) == event.end_time - event.start_time

BlinkIsOutlier(event) == duration(event) < DEFAULT_BLINK_MINIMUM_DURATION

\* too short or too long
SaccadeIsOutlier(event) ==
    duration(event) < DEFAULT_SACCADE_MINIMUM_DURATION \/ duration(event) > MAX_DURATION

\* too short (the velocity of the gaze is not modelled)
FixationIsOutlier(event) == duration(event) < DEFAULT_FIXATION_MINIMUM_DURATION

is_outlier(event) ==
    IF event.event_type = BLINK THEN BlinkIsOutlier(event)
    ELSE IF event.event_type = SACCADE THEN SaccadeIsOutlier(event)
    ELSE FixationIsOutlier(event)

\* trial.behavioral_data.get(f"is_{event_type}").values
Column(type) ==
    IF type = BLINK THEN is_blink ELSE IF type = SACCADE THEN is_saccade ELSE is_fixation

\* line 36: the time stamps in milliseconds
Timestamps == [k \in 1 .. Len(microseconds) |-> microseconds[k] \div MICROSECONDS_PER_MILLISECOND]

\* The error of constructing the event of the samples idxs, or "none": a
\* saccade and a fixation take x[idxs] and y[idxs] before the constructor runs.
EventError(type, idxs) ==
    IF type # BLINK /\ \E k \in 1 .. Len(idxs) : idxs[k] >= Len(x) \/ idxs[k] >= Len(y)
    THEN "IndexError"
    ELSE GazeEventError(take(Timestamps, idxs))

\* the first error of the list comprehension over separate_event_idxs
RECURSIVE FirstEventError(_, _)
FirstEventError(type, separate_event_idxs) ==
    IF separate_event_idxs = <<>> THEN "none"
    ELSE IF EventError(type, Head(separate_event_idxs)) # "none"
         THEN EventError(type, Head(separate_event_idxs))
         ELSE FirstEventError(type, Tail(separate_event_idxs))

\* list.sort(key=lambda event: event.start_time): stable, ascending
RECURSIVE SortByStartTime(_)
SortByStartTime(evs) ==
    IF evs = <<>> THEN <<>>
    ELSE LET sorted == SortByStartTime(SubSeq(evs, 1, Len(evs) - 1))
             e == evs[Len(evs)]
             before == SelectSeq(sorted, LAMBDA o : o.start_time <= e.start_time)
             after == SelectSeq(sorted, LAMBDA o : o.start_time > e.start_time)
         IN before \o <<e>> \o after

\* [event for event in events_list if not event.is_outlier]
DropOutliers(evs) == SelectSeq(evs, LAMBDA e : ~is_outlier(e))

\* mutant: a mask without a True sample is an error
extract_event_EmptyIsError(type, drop) ==
    LET separate_event_idxs == _split_samples_between_events(Column(type))
        built == [k \in 1 .. Len(separate_event_idxs) |->
                    GazeEvent(type, take(Timestamps, separate_event_idxs[k]))]
    IN IF type \notin {BLINK, SACCADE, FIXATION}
       THEN [raises |-> "NotImplementedError", value |-> <<>>]
       ELSE IF Len(Timestamps) # Len(Column(type))
       THEN [raises |-> "ValueError: length", value |-> <<>>]
       ELSE IF separate_event_idxs = <<>>
       THEN [raises |-> "ValueError: samples", value |-> <<>>]
       ELSE IF FirstEventError(type, separate_event_idxs) # "none"
       THEN [raises |-> FirstEventError(type, separate_event_idxs), value |-> <<>>]
       ELSE [raises |-> "none",
             value |-> SortByStartTime(IF drop THEN DropOutliers(built) ELSE built)]

\* extract_event(trial, event_type, sampling_rate, drop_outliers): the
\* exception it raises and the list it returns.  The table is taken to hold
\* the three mask columns, so the missing-column error does not occur.
extract_event(type, drop) ==
    LET separate_event_idxs == _split_samples_between_events(Column(type))
        built == [k \in 1 .. Len(separate_event_idxs) |->
                    GazeEvent(type, take(Timestamps, separate_event_idxs[k]))]
    IN IF type \notin {BLINK, SACCADE, FIXATION}
       THEN [raises |-> "NotImplementedError", value |-> <<>>]
       ELSE IF Len(Timestamps) # Len(Column(type))
       THEN [raises |-> "ValueError: length", value |-> <<>>]
       ELSE IF FirstEventError(type, separate_event_idxs) # "none"
       THEN [raises |-> FirstEventError(type, separate_event_idxs), value |-> <<>>]
       ELSE [raises |-> "none",
             value |-> SortByStartTime(IF drop THEN DropOutliers(built) ELSE built)]

\* the call extract_event(trial, event_type, sampling_rate, drop_outliers)
ExtractEvent ==
    /\ pc = "table"
    /\ \E type \in {BLINK, SACCADE, FIXATION, "pupil"}, drop \in BOOLEAN :
         /\ event_type' = type
         /\ drop_outliers' = drop
         /\ events_list' = extract_event(type, drop).value
         /\ err' = extract_event(type, drop).raises
         /\ pc' = IF extract_event(type, drop).raises = "none" THEN "extracted" ELSE "raised"
    /\ UNCHANGED <<lws, samples, detector, session>>

\* mutant: the outliers are the ones that are kept
extract_all_events_KeepOutliers(drop) ==
    LET blink_events == extract_event(BLINK, FALSE)
        saccade_events == extract_event(SACCADE, FALSE)
        fixation_events == extract_event(FIXATION, FALSE)
        all_events == blink_events.value \o saccade_events.value \o fixation_events.value
    IN IF blink_events.raises # "none" THEN blink_events
       ELSE IF saccade_events.raises # "none" THEN saccade_events
       ELSE IF fixation_events.raises # "none" THEN fixation_events
       ELSE [raises |-> "none",
             value |-> SortByStartTime(
                         IF drop THEN SelectSeq(all_events, LAMBDA e : is_outlier(e))
                         ELSE all_events)]

\* mutant: the concatenation is returned without sorting it
extract_all_events_NoSort(drop) ==
    LET blink_events == extract_event(BLINK, FALSE)
        saccade_events == extract_event(SACCADE, FALSE)
        fixation_events == extract_event(FIXATION, FALSE)
        all_events == blink_events.value \o saccade_events.value \o fixation_events.value
    IN IF blink_events.raises # "none" THEN blink_events
       ELSE IF saccade_events.raises # "none" THEN saccade_events
       ELSE IF fixation_events.raises # "none" THEN fixation_events
       ELSE [raises |-> "none",
             value |-> IF drop THEN DropOutliers(all_events) ELSE all_events]

\* extract_all_events(trial, sampling_rate, drop_outliers)
extract_all_events(drop) ==
    LET blink_events == extract_event(BLINK, FALSE)
        saccade_events == extract_event(SACCADE, FALSE)
        fixation_events == extract_event(FIXATION, FALSE)
        all_events == blink_events.value \o saccade_events.value \o fixation_events.value
    IN IF blink_events.raises # "none" THEN blink_events
       ELSE IF saccade_events.raises # "none" THEN saccade_events
       ELSE IF fixation_events.raises # "none" THEN fixation_events
       ELSE [raises |-> "none",
             value |-> SortByStartTime(IF drop THEN DropOutliers(all_events) ELSE all_events)]

\* the call extract_all_events(trial, sampling_rate, drop_outliers)
ExtractAllEvents ==
    /\ pc = "table"
    /\ \E drop \in BOOLEAN :
         /\ event_type' = "all"
         /\ drop_outliers' = drop
         /\ events_list' = extract_all_events(drop).value
         /\ err' = extract_all_events(drop).raises
         /\ pc' = IF extract_all_events(drop).raises = "none" THEN "extracted" ELSE "raised"
    /\ UNCHANGED <<lws, samples, detector, session>>

\* ------------------------------------------------ specifications: extractor
\* the classifier is not running
NoTrial ==
    /\ events = <<>> /\ trial_end_time = 1 /\ behavioral_data = <<>>
    /\ proximity_threshold = THRESHOLD_VISUAL_ANGLE
    /\ proximal_fixations_only = FALSE
    /\ target_info = [i \in Targets |-> NaN]
    /\ is_lws_instance = <<>> /\ standalone = <<>> /\ pairwise = <<>>
    /\ pair = 0 /\ rate = <<>>

\* n samples, one per millisecond from t0 on
SampleTimes(n, t0) == [k \in 1 .. n |-> (t0 + k - 1) * MICROSECONDS_PER_MILLISECOND]
StartTimes == {0, 3}
Zeros(n) == [k \in 1 .. n |-> 0]
AllFalse(n) == [k \in 1 .. n |-> FALSE]
Configurations == {None, "set"}

\* extract_event on every mask of at most MaxMask samples, held by one of the
\* three columns; the arrays of time stamps and of coordinates may disagree
\* with the mask in length.
InitExtract ==
    /\ NoTrial /\ ExtractorIdle /\ DetectorIdle /\ SessionIdle
    /\ pc = "table" /\ err = "none"
    /\ _ScreenMonitor \in Configurations /\ _ViewerDistance \in Configurations
    /\ \E n \in 0 .. MaxMask : \E is_event \in [1 .. n -> BOOLEAN] :
         /\ \E family \in {BLINK, SACCADE, FIXATION} :
              /\ is_blink = (IF family = BLINK THEN is_event ELSE AllFalse(n))
              /\ is_saccade = (IF family = SACCADE THEN is_event ELSE AllFalse(n))
              /\ is_fixation = (IF family = FIXATION THEN is_event ELSE AllFalse(n))
         /\ \E t0 \in StartTimes, m \in {n, n + 1} : microseconds = SampleTimes(m, t0)
         /\ \E m \in {n - 1, n, n + 1} : m >= 0 /\ x = Zeros(m) /\ y = Zeros(m)

NextExtract == ExtractEvent

SpecExtract == InitExtract /\ [][NextExtract]_vars

\* extract_all_events, and extract_event, on every triple of masks of at most
\* MaxSamples samples, with the class configuration of the events in place
InitExtractAll ==
    /\ NoTrial /\ ExtractorIdle /\ DetectorIdle /\ SessionIdle
    /\ pc = "table" /\ err = "none"
    /\ _ScreenMonitor = "set" /\ _ViewerDistance = "set"
    /\ \E n \in 0 .. MaxSamples :
         /\ is_blink \in [1 .. n -> BOOLEAN]
         /\ is_saccade \in [1 .. n -> BOOLEAN]
         /\ is_fixation \in [1 .. n -> BOOLEAN]
         /\ microseconds = SampleTimes(n, 0)
         /\ x = Zeros(n) /\ y = Zeros(n)

NextExtractAll ==
    \/ ExtractAllEvents
    \/ ExtractEvent

SpecExtractAll == InitExtractAll /\ [][NextExtractAll]_vars

\* ====================================================== claims: extractor
\* the maximal contiguous runs of True samples of a mask, as pairs of the
\* 1-based positions of their first and last sample
Runs(array) ==
    {r \in (1 .. Len(array)) \X (1 .. Len(array)) :
        /\ r[1] <= r[2]
        /\ \A p \in r[1] .. r[2] : array[p]
        /\ (r[1] = 1 \/ ~array[r[1] - 1])
        /\ (r[2] = Len(array) \/ ~array[r[2] + 1])}

RunLength(r) == r[2] - r[1] + 1

\* the time in milliseconds of the sample at a 1-based position
TimeOfSample(p) == microseconds[p] \div MICROSECONDS_PER_MILLISECOND

\* extract_event was called for a family, keeping the outliers, on arrays of
\* one length and with the class configuration of the events in place
WellFormedExtraction ==
    /\ pc \in {"extracted", "raised"}
    /\ event_type \in {BLINK, SACCADE, FIXATION}
    /\ ~drop_outliers
    /\ Len(microseconds) = Len(Column(event_type))
    /\ Len(x) = Len(Column(event_type)) /\ Len(y) = Len(Column(event_type))
    /\ _ScreenMonitor # None /\ _ViewerDistance # None

\* the returned list has exactly one event per run, from the run's first to
\* its last time stamp
OneEventPerRun ==
    /\ pc = "extracted"
    /\ Len(events_list) = Cardinality(Runs(Column(event_type)))
    /\ \A r \in Runs(Column(event_type)) :
         Cardinality({k \in 1 .. Len(events_list) :
                        /\ events_list[k].event_type = event_type
                        /\ events_list[k].start_time = TimeOfSample(r[1])
                        /\ events_list[k].end_time = TimeOfSample(r[2])}) = 1

\* C11 (as stated): for every boolean mask extract_event returns exactly one
\* event per maximal contiguous run of True samples, starting at the time
\* stamp of the run's first sample and ending at that of its last.
C11_OneEventPerRun == WellFormedExtraction => OneEventPerRun

\* C11 (amended): the same for every mask whose runs all have at least
\* DEFAULT_MINIMUM_SAMPLES_PER_EVENT samples; a shorter run makes the
\* constructor of the event, and with it extract_event, raise a ValueError.
C11_OneEventPerLongRun ==
    WellFormedExtraction =>
        IF \A r \in Runs(Column(event_type)) : RunLength(r) >= DEFAULT_MINIMUM_SAMPLES_PER_EVENT
        THEN OneEventPerRun
        ELSE pc = "raised" /\ err = "ValueError: samples" /\ events_list = <<>>

\* two runs separated by a single False sample gave two events
C11_Witness ==
    /\ WellFormedExtraction /\ pc = "extracted"
    /\ Column(event_type) = <<TRUE, TRUE, FALSE, TRUE, TRUE>>
    /\ Len(events_list) = 2
    /\ events_list[1].end_time + 2 = events_list[2].start_time

\* the 0-based indices of the True samples of a mask
TrueIndices(array) == {p - 1 : p \in {q \in 1 .. Len(array) : array[q]}}

\* the set of the indices in one list of indices
IndexSet(idxs) == {idxs[k] : k \in 1 .. Len(idxs)}

\* the index lists are pairwise disjoint and cover exactly the True indices
PartitionsTrueIndices(array, separate_event_idxs) ==
    /\ \A j, k \in 1 .. Len(separate_event_idxs) :
         j # k => IndexSet(separate_event_idxs[j]) \cap IndexSet(separate_event_idxs[k]) = {}
    /\ UNION {IndexSet(separate_event_idxs[k]) : k \in 1 .. Len(separate_event_idxs)}
         = TrueIndices(array)

\* C12: every list returned by extract_event and extract_all_events is sorted
\* ascending by start_time, no two of its events of one family own a common
\* sample, and the index lists of _split_samples_between_events are pairwise
\* disjoint with the True indices as their union.
C12_SortedAndDisjoint ==
    pc = "extracted" =>
        /\ \A j, k \in 1 .. Len(events_list) :
             j < k => events_list[j].start_time <= events_list[k].start_time
        /\ \A j, k \in 1 .. Len(events_list) :
             (j # k /\ events_list[j].event_type = events_list[k].event_type)
                => IndexSet(events_list[j].timestamps) \cap IndexSet(events_list[k].timestamps) = {}
        /\ \A family \in {BLINK, SACCADE, FIXATION} :
             PartitionsTrueIndices(Column(family), _split_samples_between_events(Column(family)))

\* extract_all_events returned a fixation before a blink: sorting changed the
\* order of the concatenation
C12_Witness ==
    /\ pc = "extracted" /\ event_type = "all"
    /\ Len(events_list) = 2
    /\ events_list[1].event_type = FIXATION /\ events_list[2].event_type = BLINK
    /\ events_list[1].start_time < events_list[2].start_time
    /\ _split_samples_between_events(is_blink) = <<<<2, 3>>>>

\* C13: an empty or all-False mask of a family yields an empty event list and
\* no error (the time stamps being as many as the mask's samples).
C13_EmptyMaskEmptyList ==
    (/\ pc \in {"extracted", "raised"}
     /\ event_type \in {BLINK, SACCADE, FIXATION}
     /\ TrueIndices(Column(event_type)) = {}
     /\ Len(microseconds) = Len(Column(event_type)))
        => (pc = "extracted" /\ err = "none" /\ events_list = <<>>)

\* an all-False mask of three samples was extracted, although the event
\* classes were not configured
C13_Witness ==
    /\ pc = "extracted" /\ event_type = SACCADE
    /\ is_saccade = <<FALSE, FALSE, FALSE>>
    /\ _ScreenMonitor = None
    /\ events_list = <<>>

FamilyEvents ==
    UNION {IndexSet(extract_event(family, FALSE).value) : family \in {BLINK, SACCADE, FIXATION}}

\* C15: extract_all_events returns the blink, saccade and fixation events of
\* the three per-family extractions, sorted by start_time: all of them when
\* drop_outliers is false, those that are not outliers when it is true.
C15_AllEventsOfTheFamilies ==
    (pc = "extracted" /\ event_type = "all") =>
        LET expected == {e \in FamilyEvents : ~drop_outliers \/ ~is_outlier(e)}
        IN /\ \A family \in {BLINK, SACCADE, FIXATION} :
                extract_event(family, FALSE).raises = "none"
           /\ IndexSet(events_list) = expected
           /\ Len(events_list) = Cardinality(expected)
           /\ \A j, k \in 1 .. Len(events_list) :
                j < k => events_list[j].start_time <= events_list[k].start_time

\* with drop_outliers a blink of two samples was dropped and a saccade of
\* two samples was kept
C15_Witness ==
    /\ pc = "extracted" /\ event_type = "all" /\ drop_outliers
    /\ Cardinality(FamilyEvents) = 2
    /\ Len(events_list) = 1
    /\ events_list[1].event_type = SACCADE
    /\ \E e \in FamilyEvents : e.event_type = BLINK

\* ============================================================ the detectors
\* src/EventDetectors/EngbertSaccadeDetector.py and scripts/detect_events.py.
\* Coordinates are even numbers of half pixels, so that no velocity is equal
\* to the NaN sentinel.  The numeric kernels of Utils/velocity_utils.py are
\* not part of the sources; they follow section 4.1 of the specification.
DEFAULT_LAMBDA_NOISE_THRESHOLD == 5
LargeLambda == 100

\* the k-th smallest of the values of a sequence
KthSmallest(values, k) ==
    CHOOSE v \in IndexSet(values) :
        /\ Cardinality({j \in 1 .. Len(values) : values[j] < v}) < k
        /\ Cardinality({j \in 1 .. Len(values) : values[j] <= v}) >= k

\* twice np.nanmedian(values): NaN when no value is left
TwiceMedian(values) ==
    LET finite == SelectSeq(values, LAMBDA v : ~isnan(v))
        n == Len(finite)
    IN IF n = 0 THEN NaN
       ELSE IF n % 2 = 1 THEN 2 * KthSmallest(finite, (n + 1) \div 2)
       ELSE KthSmallest(finite, n \div 2) + KthSmallest(finite, n \div 2 + 1)

\* numerical_derivative(seq, n), up to a positive factor: the sum of the n
\* next samples minus the sum of the n previous ones, NaN where the window
\* leaves the sequence
numerical_derivative(seq, n) ==
    [i \in 1 .. Len(seq) |->
        IF i - n >= 1 /\ i + n <= Len(seq)
        THEN SumSeq([k \in 1 .. n |-> seq[i + k] - seq[i - k]])
        ELSE NaN]

\* 8 * median_standard_deviation(seq)^2 = 8 * median((v - median(v))^2),
\* an integer; NaN when the sequence has no finite value
median_standard_deviation(seq) ==
    IF isnan(TwiceMedian(seq)) THEN NaN
    ELSE TwiceMedian([i \in 1 .. Len(seq) |->
                        IF isnan(seq[i]) THEN NaN
                        ELSE (2 * seq[i] - TwiceMedian(seq)) * (2 * seq[i] - TwiceMedian(seq))])

\* np.power(vel / (sd * lambda), 2) as "nan", "inf" or "finite": a division
\* by zero gives inf, or nan for 0 / 0, and no exception
Term(vel, sd, lambda) ==
    IF isnan(vel) \/ isnan(sd) THEN "nan"
    ELSE IF sd * lambda * lambda = 0 THEN (IF vel = 0 THEN "nan" ELSE "inf")
    ELSE "finite"

\* lines 71-73: (vx / (sdx * lambda))^2 + (vy / (sdy * lambda))^2 > 1, with
\* sdx and sdy given as 8 * sd^2
ellipse_thresholds_gt_1(vx, sdx, vy, sdy, lambda) ==
    IF Term(vx, sdx, lambda) = "nan" \/ Term(vy, sdy, lambda) = "nan" THEN FALSE
    ELSE IF Term(vx, sdx, lambda) = "inf" \/ Term(vy, sdy, lambda) = "inf" THEN TRUE
    ELSE 8 * vx * vx * sdy + 8 * vy * vy * sdx > sdx * sdy * lambda * lambda

\* mutant: the validation accepts only arrays longer than twice the window
candidates_error_StrictlyLonger(xs, ys, window) ==
    IF Len(xs) # Len(ys) THEN "ValueError: same length"
    ELSE IF Len(xs) <= 2 * window THEN "ValueError: 2 * derivation_window_size"
    ELSE "none"

\* lines 60-64: the ValueError of _find_candidates, or "none"
_find_candidates_error(xs, ys, window) ==
    IF Len(xs) # Len(ys) THEN "ValueError: same length"
    ELSE IF Len(xs) < 2 * window THEN "ValueError: 2 * derivation_window_size"
    ELSE "none"

\* lines 66-74: the boolean array of the saccade candidates
_find_candidates(xs, ys, window, lambda) ==
    LET vel_x == numerical_derivative(xs, window)
        sd_x == median_standard_deviation(vel_x)
        vel_y == numerical_derivative(ys, window)
        sd_y == median_standard_deviation(vel_y)
    IN [i \in 1 .. Len(xs) |-> ellipse_thresholds_gt_1(vel_x[i], sd_x, vel_y[i], sd_y, lambda)]

\* mutant: the samples between two candidates are counted, not their distance
separate_GapCounted(candidates, between) ==
    LET saccade_candidate_idxs == nonzero(candidates)
        d == diff(saccade_candidate_idxs)
        splitting_idxs == nonzero([k \in 1 .. Len(d) |-> d[k] - 1 > between])
    IN split(saccade_candidate_idxs, [k \in 1 .. Len(splitting_idxs) |-> splitting_idxs[k] + 1])

\* lines 83-86: the candidate indices, split where two consecutive ones are
\* more than _min_samples_between_events apart
separate_saccade_idxs_of(candidates, between) ==
    LET saccade_candidate_idxs == nonzero(candidates)
        d == diff(saccade_candidate_idxs)
        splitting_idxs == nonzero([k \in 1 .. Len(d) |-> d[k] > between])
    IN split(saccade_candidate_idxs, [k \in 1 .. Len(splitting_idxs) |-> splitting_idxs[k] + 1])

\* sac_idxs.min() and sac_idxs.max() of an ascending array
start_end(sac_idxs) == <<sac_idxs[1], sac_idxs[Len(sac_idxs)]>>

\* mutant: the samples of a saccade are counted, not its duration
filter_SamplesCounted(separate, within) ==
    SelectSeq([k \in 1 .. Len(separate) |-> start_end(separate[k])],
              LAMBDA sac : sac[2] - sac[1] + 1 >= within)

\* lines 89-91 for non-empty index arrays: the <<start, end>> of the saccades
\* that are not shorter than the minimum duration
saccades_start_end(separate, within) ==
    SelectSeq([k \in 1 .. Len(separate) |-> start_end(separate[k])],
              LAMBDA sac : sac[2] - sac[1] >= within)

\* np.zeros(n, dtype=bool) and np.zeros_like(x, dtype=bool)
zeros(n) == [k \in 1 .. n |-> FALSE]

\* mutant: np.arange(start, end) leaves the last sample of a saccade out
is_saccade_of_EndExcluded(n, start_end_idxs) ==
    [k \in 1 .. n |-> \E j \in 1 .. Len(start_end_idxs) :
                        start_end_idxs[j][1] <= k - 1 /\ k - 1 < start_end_idxs[j][2]]

\* lines 43-44: True at the indices start .. end of every saccade
is_saccade_of(n, start_end_idxs) ==
    [k \in 1 .. n |-> \E j \in 1 .. Len(start_end_idxs) :
                        start_end_idxs[j][1] <= k - 1 /\ k - 1 <= start_end_idxs[j][2]]

\* str.lower() on the tags that are followed; a tag without an upper-case
\* letter is its own lower case
lower(tag) ==
    CASE tag = "Missing Data" -> "missing data"
      [] tag = "MISSING_DATA" -> "missing_data"
      [] tag = "Pupil Size" -> "pupil size"
      [] tag = "Pupil_Size" -> "pupil_size"
      [] tag = "Engbert" -> "engbert"
      [] tag = "ENGBERT" -> "engbert"
      [] tag = "IVT" -> "ivt"
      [] tag = "IDT" -> "idt"
      [] tag = "XYZ" -> "xyz"
      [] OTHER -> tag

\* mutant: the tag is compared as it is written
_get_event_detector_CaseSensitive(type, kwargs) ==
    IF type \in {"missing data", "missing_data"}
    THEN [raises |-> "none", variant |-> "MissingDataBlinkDetector"]
    ELSE IF type \in {"pupil size", "pupil_size"}
    THEN [raises |-> "none", variant |-> "PupilSizeBlinkDetector"]
    ELSE IF type = "engbert"
    THEN IF "derivation_window_size" \notin kwargs \/ "lambda_noise_threshold" \notin kwargs
         THEN [raises |-> "ValueError: not specified", variant |-> None]
         ELSE [raises |-> "none", variant |-> "EngbertSaccadeDetector"]
    ELSE IF type = "ivt"
    THEN IF "velocity_threshold" \notin kwargs
         THEN [raises |-> "ValueError: not specified", variant |-> None]
         ELSE [raises |-> "none", variant |-> "IVTFixationDetector"]
    ELSE IF type = "idt"
    THEN [raises |-> "none", variant |-> "IDTFixationDetector"]
    ELSE [raises |-> "ValueError: unknown detector type", variant |-> None]

\* _get_event_detector: the variant it constructs, or the ValueError it
\* raises; kwargs is the set of the keywords whose value is not None
_get_event_detector(type, kwargs) ==
    IF lower(type) \in {"missing data", "missing_data"}
    THEN [raises |-> "none", variant |-> "MissingDataBlinkDetector"]
    ELSE IF lower(type) \in {"pupil size", "pupil_size"}
    THEN [raises |-> "none", variant |-> "PupilSizeBlinkDetector"]
    ELSE IF lower(type) = "engbert"
    THEN IF "derivation_window_size" \notin kwargs \/ "lambda_noise_threshold" \notin kwargs
         THEN [raises |-> "ValueError: not specified", variant |-> None]
         ELSE [raises |-> "none", variant |-> "EngbertSaccadeDetector"]
    ELSE IF lower(type) = "ivt"
    THEN IF "velocity_threshold" \notin kwargs
         THEN [raises |-> "ValueError: not specified", variant |-> None]
         ELSE [raises |-> "none", variant |-> "IVTFixationDetector"]
    ELSE IF lower(type) = "idt"
    THEN [raises |-> "none", variant |-> "IDTFixationDetector"]
    ELSE [raises |-> "ValueError: unknown detector type", variant |-> None]

\* the detector types of the calls that are followed: none, the Engbert
\* detector, and a tag that names no detector
DetectorTypes == {None, "engbert", "xyz"}
WindowSizes == {1, 2}
Lambdas == {1, DEFAULT_LAMBDA_NOISE_THRESHOLD, LargeLambda}
SamplesBetween == {1, 2}
SamplesWithin == {0, 1}

\* detect_blinks (lines 51-68): without a detector type the mask is
\* np.zeros_like(x); the keywords it passes on do not make an Engbert detector
DetectBlinks ==
    /\ pc = "input"
    /\ \E type \in DetectorTypes :
         /\ detector_type' = type
         /\ detect_call' = "detect_blinks"
         /\ IF type = None
            THEN /\ is_detected' = zeros(Len(x))
                 /\ pc' = "detected"
                 /\ UNCHANGED err
            ELSE /\ err' = _get_event_detector(type, {"missing_value"}).raises
                 /\ pc' = "raised"
                 /\ UNCHANGED is_detected
    /\ UNCHANGED <<derivation_window_size, lambda_noise_threshold,
                   _min_samples_between_events, _min_samples_within_event,
                   is_saccade_candidate, separate_saccade_idxs, saccades_start_end_idxs>>
    /\ UNCHANGED <<lws, samples, extractor, session>>

\* detect_fixations (lines 125-140): without a detector type the mask is
\* np.zeros_like(x); the keywords it passes on do not make an Engbert detector
DetectFixations ==
    /\ pc = "input"
    /\ \E type \in DetectorTypes :
         /\ detector_type' = type
         /\ detect_call' = "detect_fixations"
         /\ IF type = None
            THEN /\ is_detected' = zeros(Len(x))
                 /\ pc' = "detected"
                 /\ UNCHANGED err
            ELSE /\ err' = _get_event_detector(type, {"velocity_threshold"}).raises
                 /\ pc' = "raised"
                 /\ UNCHANGED is_detected
    /\ UNCHANGED <<derivation_window_size, lambda_noise_threshold,
                   _min_samples_between_events, _min_samples_within_event,
                   is_saccade_candidate, separate_saccade_idxs, saccades_start_end_idxs>>
    /\ UNCHANGED <<lws, samples, extractor, session>>

\* detect_saccades up to the construction of the detector (lines 89-103)
DetectSaccades ==
    /\ pc = "input"
    /\ \E type \in DetectorTypes, window \in WindowSizes, lambda \in Lambdas,
          between \in SamplesBetween, within \in SamplesWithin :
         LET made == _get_event_detector(type, {"derivation_window_size",
                                                "lambda_noise_threshold"})
         IN /\ detector_type' = type
            /\ detect_call' = "detect_saccades"
            /\ IF type = None
               THEN /\ is_detected' = zeros(Len(x))
                    /\ pc' = "detected"
                    /\ UNCHANGED <<err, derivation_window_size, lambda_noise_threshold,
                                   _min_samples_between_events, _min_samples_within_event>>
               ELSE IF made.raises # "none"
               THEN /\ err' = made.raises
                    /\ pc' = "raised"
                    /\ UNCHANGED <<is_detected, derivation_window_size, lambda_noise_threshold,
                                   _min_samples_between_events, _min_samples_within_event>>
               ELSE /\ derivation_window_size' = window
                    /\ lambda_noise_threshold' = lambda
                    /\ _min_samples_between_events' = between
                    /\ _min_samples_within_event' = within
                    /\ pc' = "detect"
                    /\ UNCHANGED <<err, is_detected>>
    /\ UNCHANGED <<is_saccade_candidate, separate_saccade_idxs, saccades_start_end_idxs>>
    /\ UNCHANGED <<lws, samples, extractor, session>>

\* EngbertSaccadeDetector.detect, line 38: _find_candidates(x, y)
FindCandidates ==
    /\ pc = "detect"
    /\ IF _find_candidates_error(x, y, derivation_window_size) # "none"
       THEN /\ err' = _find_candidates_error(x, y, derivation_window_size)
            /\ pc' = "raised"
            /\ UNCHANGED is_saccade_candidate
       ELSE /\ is_saccade_candidate' =
                  _find_candidates(x, y, derivation_window_size, lambda_noise_threshold)
            /\ pc' = "candidates"
            /\ UNCHANGED err
    /\ UNCHANGED <<detector_type, derivation_window_size, lambda_noise_threshold,
                   _min_samples_between_events, _min_samples_within_event,
                   separate_saccade_idxs, saccades_start_end_idxs, is_detected, detect_call>>
    /\ UNCHANGED <<lws, samples, extractor, session>>

\* _find_start_end_indices, lines 83-86
SplitCandidates ==
    /\ pc = "candidates"
    /\ separate_saccade_idxs' =
           separate_saccade_idxs_of(is_saccade_candidate, _min_samples_between_events)
    /\ pc' = "split"
    /\ UNCHANGED <<detector_type, derivation_window_size, lambda_noise_threshold,
                   _min_samples_between_events, _min_samples_within_event,
                   is_saccade_candidate, saccades_start_end_idxs, is_detected, detect_call>>
    /\ UNCHANGED <<lws, samples, extractor, err, session>>

\* _find_start_end_indices, lines 89-92: min() of an empty index array, which
\* is what np.split makes of no candidate at all, is a ValueError
FilterSaccades ==
    /\ pc = "split"
    /\ IF \E k \in 1 .. Len(separate_saccade_idxs) : separate_saccade_idxs[k] = <<>>
       THEN /\ err' = "ValueError: zero-size array"
            /\ pc' = "raised"
            /\ UNCHANGED saccades_start_end_idxs
       ELSE /\ saccades_start_end_idxs' =
                  saccades_start_end(separate_saccade_idxs, _min_samples_within_event)
            /\ pc' = "saccades"
            /\ UNCHANGED err
    /\ UNCHANGED <<detector_type, derivation_window_size, lambda_noise_threshold,
                   _min_samples_between_events, _min_samples_within_event,
                   is_saccade_candidate, separate_saccade_idxs, is_detected, detect_call>>
    /\ UNCHANGED <<lws, samples, extractor, session>>

\* detect, lines 41-45: np.concatenate of an empty list is a ValueError
BuildMask ==
    /\ pc = "saccades"
    /\ IF saccades_start_end_idxs = <<>>
       THEN /\ err' = "ValueError: concatenate"
            /\ pc' = "raised"
            /\ UNCHANGED is_detected
       ELSE /\ is_detected' = is_saccade_of(Len(x), saccades_start_end_idxs)
            /\ pc' = "detected"
            /\ UNCHANGED err
    /\ UNCHANGED <<detector_type, derivation_window_size, lambda_noise_threshold,
                   _min_samples_between_events, _min_samples_within_event,
                   is_saccade_candidate, separate_saccade_idxs, saccades_start_end_idxs,
                   detect_call>>
    /\ UNCHANGED <<lws, samples, extractor, session>>

\* ------------------------------------------------ specifications: detectors
\* the coordinates of a sample, in half pixels
Coordinates == {0, 2}

NoMasks ==
    /\ microseconds = <<>> /\ is_blink = <<>> /\ is_saccade = <<>> /\ is_fixation = <<>>
    /\ _ScreenMonitor = None /\ _ViewerDistance = None

\* the detection functions on every x and y of at most MaxMask samples; y is
\* as long as x or one sample longer
InitDetect ==
    /\ NoTrial /\ ExtractorIdle /\ DetectorIdle /\ NoMasks /\ SessionIdle
    /\ pc = "input" /\ err = "none"
    /\ \E n \in 0 .. MaxMask :
         /\ x \in [1 .. n -> Coordinates]
         /\ \/ y \in [1 .. n -> Coordinates]
            \/ y = Zeros(n + 1)

NextDetect ==
    \/ DetectBlinks
    \/ DetectSaccades
    \/ DetectFixations
    \/ FindCandidates
    \/ SplitCandidates
    \/ FilterSaccades
    \/ BuildMask

SpecDetect == InitDetect /\ [][NextDetect]_vars

\* _find_start_end_indices and the conversion to a mask on every array of
\* candidates of at most MaxMask samples
InitSaccades ==
    /\ NoTrial /\ ExtractorIdle /\ NoMasks /\ SessionIdle
    /\ pc = "candidates" /\ err = "none"
    /\ detector_type = "engbert" /\ detect_call = "detect_saccades"
    /\ derivation_window_size = 1 /\ lambda_noise_threshold = DEFAULT_LAMBDA_NOISE_THRESHOLD
    /\ _min_samples_between_events \in 0 .. 3
    /\ _min_samples_within_event \in 0 .. 3
    /\ \E n \in 0 .. MaxMask :
         /\ is_saccade_candidate \in [1 .. n -> BOOLEAN]
         /\ x = Zeros(n) /\ y = Zeros(n)
    /\ separate_saccade_idxs = <<>> /\ saccades_start_end_idxs = <<>>
    /\ is_detected = <<>>

NextSaccades ==
    \/ SplitCandidates
    \/ FilterSaccades
    \/ BuildMask

SpecSaccades == InitSaccades /\ [][NextSaccades]_vars

\* ======================================================= claims: detectors
\* pairs of candidate runs with no candidate sample between them
ConsecutiveRuns ==
    {rr \in Runs(is_saccade_candidate) \X Runs(is_saccade_candidate) :
        /\ rr[1][2] < rr[2][1]
        /\ \A p \in (rr[1][2] + 1) .. (rr[2][1] - 1) : ~is_saccade_candidate[p]}

\* the number of non-candidate samples between two consecutive runs
GapBetween(rr) == rr[2][1] - rr[1][2] - 1

\* _find_start_end_indices has split the candidates
CandidatesSplit == pc \in {"split", "saccades", "detected"}

\* the two runs lie, whole, in one of the split index arrays
Collapsed(rr) ==
    \E k \in 1 .. Len(separate_saccade_idxs) :
        \A p \in (rr[1][1] .. rr[1][2]) \cup (rr[2][1] .. rr[2][2]) :
            p - 1 \in IndexSet(separate_saccade_idxs[k])

\* the two runs share no split index array
RemainTwo(rr) ==
    \A k \in 1 .. Len(separate_saccade_idxs) :
        ~(/\ \E p \in rr[1][1] .. rr[1][2] : p - 1 \in IndexSet(separate_saccade_idxs[k])
          /\ \E p \in rr[2][1] .. rr[2][2] : p - 1 \in IndexSet(separate_saccade_idxs[k]))

\* C16 (as stated): two candidate runs separated by a gap of at most
\* _min_samples_between_events non-candidate samples collapse into one run,
\* also when the gap equals the threshold; with a larger gap they remain two.
C16_MergeGapAtMost ==
    CandidatesSplit =>
        \A rr \in ConsecutiveRuns :
            IF GapBetween(rr) <= _min_samples_between_events
            THEN Collapsed(rr) ELSE RemainTwo(rr)

\* C16 (amended): two candidate runs collapse into one run iff the last
\* sample of the first and the first sample of the second are at most
\* _min_samples_between_events indices apart, that is iff fewer than that
\* many non-candidate samples lie between them; with a gap equal to the
\* threshold they remain two runs.
C16_MergeDistanceAtMost ==
    CandidatesSplit =>
        \A rr \in ConsecutiveRuns :
            IF GapBetween(rr) + 1 <= _min_samples_between_events
            THEN Collapsed(rr) ELSE RemainTwo(rr)

\* with a threshold of 2 the two runs around a gap of one sample are one run
C16_Witness ==
    /\ CandidatesSplit
    /\ _min_samples_between_events = 2
    /\ is_saccade_candidate = <<TRUE, FALSE, TRUE, FALSE, FALSE>>
    /\ separate_saccade_idxs = <<<<0, 2>>>>

\* the minimum-duration filter has run on the merged runs
SaccadesFiltered ==
    \/ pc \in {"saccades", "detected"}
    \/ pc = "raised" /\ err = "ValueError: concatenate"

\* the number of samples from the first to the last sample of a merged run
SamplesOf(sac_idxs) == sac_idxs[Len(sac_idxs)] - sac_idxs[1] + 1

\* the merged run is among the saccades and, once the mask is built, all of
\* its samples are True in it
Kept(sac_idxs) ==
    /\ \E j \in 1 .. Len(saccades_start_end_idxs) :
         saccades_start_end_idxs[j] = <<sac_idxs[1], sac_idxs[Len(sac_idxs)]>>
    /\ pc = "detected" =>
         \A i \in sac_idxs[1] .. sac_idxs[Len(sac_idxs)] : is_detected[i + 1]

\* the merged run is not among the saccades and, once the mask is built,
\* none of its samples is True in it
Discarded(sac_idxs) ==
    /\ \A j \in 1 .. Len(saccades_start_end_idxs) :
         saccades_start_end_idxs[j] # <<sac_idxs[1], sac_idxs[Len(sac_idxs)]>>
    /\ pc = "detected" =>
         \A i \in sac_idxs[1] .. sac_idxs[Len(sac_idxs)] : ~is_detected[i + 1]

\* C17 (as stated): after merging, a run is kept iff it has at least
\* _min_samples_within_event samples: with fewer it never appears in the
\* final mask, with exactly that many or more it does.
C17_KeptIffEnoughSamples ==
    SaccadesFiltered =>
        \A k \in 1 .. Len(separate_saccade_idxs) :
            IF SamplesOf(separate_saccade_idxs[k]) >= _min_samples_within_event
            THEN Kept(separate_saccade_idxs[k])
            ELSE Discarded(separate_saccade_idxs[k])

\* C17 (amended): after merging, a run is kept iff its last sample is at
\* least _min_samples_within_event indices after its first, that is iff it
\* has more than that many samples; a run of exactly that many samples, or
\* fewer, never appears in the final mask.
C17_KeptIffLongEnough ==
    SaccadesFiltered =>
        \A k \in 1 .. Len(separate_saccade_idxs) :
            IF SamplesOf(separate_saccade_idxs[k]) - 1 >= _min_samples_within_event
            THEN Kept(separate_saccade_idxs[k])
            ELSE Discarded(separate_saccade_idxs[k])

\* with a minimum of 1 a run of two samples is in the mask and a run of one
\* sample is not
C17_Witness ==
    /\ pc = "detected"
    /\ _min_samples_within_event = 1
    /\ is_saccade_candidate = <<TRUE, FALSE, TRUE, TRUE>>
    /\ separate_saccade_idxs = <<<<0>>, <<2, 3>>>>
    /\ saccades_start_end_idxs = <<<<2, 3>>>>
    /\ is_detected = <<FALSE, FALSE, TRUE, TRUE>>

\* C18: every mask returned by a detector, also without a detector type, is a
\* boolean sequence with len(mask) = len(x) = len(y).
C18_MaskLengths ==
    pc = "detected" =>
        /\ \A k \in 1 .. Len(is_detected) : is_detected[k] \in BOOLEAN
        /\ Len(is_detected) = Len(x)
        /\ Len(x) = Len(y)

\* _find_candidates of the Engbert detector has run
CandidatesSought ==
    /\ detector_type = "engbert"
    /\ detect_call = "detect_saccades"
    /\ pc \in {"candidates", "split", "saccades", "detected", "raised"}

\* C19: the Engbert detector raises a ValueError and produces no mask when
\* len(x) # len(y) or len(x) < 2 * derivation_window_size; an input of length
\* exactly 2 * derivation_window_size passes the validation.
C19_EngbertValidation ==
    CandidatesSought =>
        IF Len(x) # Len(y) \/ Len(x) < 2 * derivation_window_size
        THEN /\ pc = "raised"
             /\ err \in {"ValueError: same length", "ValueError: 2 * derivation_window_size"}
             /\ is_saccade_candidate = <<>> /\ is_detected = <<>>
        ELSE /\ err \notin {"ValueError: same length", "ValueError: 2 * derivation_window_size"}
             /\ Len(is_saccade_candidate) = Len(x)

\* x and y of exactly 2 * derivation_window_size = 4 samples got their
\* candidates
C19_Witness ==
    /\ CandidatesSought /\ pc = "candidates"
    /\ derivation_window_size = 2
    /\ Len(x) = 4 /\ Len(y) = 4
    /\ Len(is_saccade_candidate) = 4

\* C20: for every input of valid length a large enough noise multiplier
\* lambda leaves no saccade candidate, also when sdx or sdy is zero.  In the
\* model LargeLambda is larger than every quotient of a velocity and a
\* non-zero standard deviation.
C20_LargeLambdaNoCandidate ==
    (CandidatesSought /\ pc # "raised" /\ lambda_noise_threshold = LargeLambda) =>
        \A i \in 1 .. Len(is_saccade_candidate) : ~is_saccade_candidate[i]

\* ------------------------------------------------------ the detector factory
\* the tags given to the factory: every recognised tag, some of them with
\* upper-case letters, and tags that name no detector
DetectorTags ==
    {"missing data", "missing_data", "Missing Data", "MISSING_DATA",
     "pupil size", "pupil_size", "Pupil Size", "Pupil_Size",
     "engbert", "Engbert", "ENGBERT", "ivt", "IVT", "idt", "IDT",
     "xyz", "XYZ", "", "engbert ", "saccade"}

\* the variant-specific keywords of _get_event_detector (lines 152-156)
DetectorKeywords ==
    {"missing_value", "derivation_window_size", "lambda_noise_threshold",
     "velocity_threshold"}

\* _get_event_detector called on its own, with any tag and any of the
\* variant-specific keywords; sampling_rate, min_duration and inter_event_time
\* are valid
GetEventDetector ==
    /\ pc = "input"
    /\ \E type \in DetectorTags, kwargs \in SUBSET DetectorKeywords :
         LET made == _get_event_detector(type, kwargs)
         IN /\ detector_type' = type
            /\ keywords' = kwargs
            /\ detect_call' = "_get_event_detector"
            /\ event_detector' = made.variant
            /\ err' = made.raises
            /\ pc' = IF made.raises = "none" THEN "made" ELSE "raised"
    /\ UNCHANGED <<derivation_window_size, lambda_noise_threshold,
                   _min_samples_between_events, _min_samples_within_event,
                   is_saccade_candidate, separate_saccade_idxs,
                   saccades_start_end_idxs, is_detected>>
    /\ UNCHANGED <<lws, samples, extractor, construction, trial_object, workers>>

\* the factory called on its own, or through detect_blinks and
\* detect_fixations, on gaze data of at most two samples
InitFactory ==
    /\ NoTrial /\ ExtractorIdle /\ DetectorIdle /\ NoMasks /\ SessionIdle
    /\ pc = "input" /\ err = "none"
    /\ \E n \in 0 .. 2 : x = Zeros(n) /\ y = Zeros(n)

NextFactory == GetEventDetector \/ DetectBlinks \/ DetectFixations

SpecFactory == InitFactory /\ [][NextFactory]_vars

\* -------------------------------------------------- claims about the factory
\* the tags _get_event_detector recognises, in lower case
RecognisedTags ==
    {"missing data", "missing_data", "pupil size", "pupil_size",
     "engbert", "ivt", "idt"}

\* the variant a recognised tag names
VariantOf(tag) ==
    CASE tag \in {"missing data", "missing_data"} -> "MissingDataBlinkDetector"
      [] tag \in {"pupil size", "pupil_size"} -> "PupilSizeBlinkDetector"
      [] tag = "engbert" -> "EngbertSaccadeDetector"
      [] tag = "ivt" -> "IVTFixationDetector"
      [] tag = "idt" -> "IDTFixationDetector"
      [] OTHER -> None

\* _get_event_detector has been called on its own and has ended
FactoryCalled ==
    /\ detect_call = "_get_event_detector"
    /\ pc \in {"made", "raised"}

\* the keywords the claim counts as required by a tag's variant
EngbertOrIvtKeywords(tag) ==
    CASE tag = "engbert" -> {"derivation_window_size", "lambda_noise_threshold"}
      [] tag = "ivt" -> {"velocity_threshold"}
      [] OTHER -> {}

\* C21 as stated: the factory raises the unknown-type ValueError for every
\* tag that is not recognised (case-insensitively), and returns a detector
\* of the matching variant for every tag that is.
C21_UnknownTagOrDetector ==
    FactoryCalled =>
        IF lower(detector_type) \notin RecognisedTags
        THEN /\ pc = "raised" /\ err = "ValueError: unknown detector type"
             /\ event_detector = None
        ELSE /\ pc = "made" /\ err = "none"
             /\ event_detector = VariantOf(lower(detector_type))

\* C21, amended: the factory raises the unknown-type ValueError exactly for
\* the tags that are not recognised (case-insensitively); for a recognised
\* tag it returns a detector of the matching variant when the keywords the
\* variant needs are given, and otherwise raises the not-specified
\* ValueError and returns nothing.
C21_UnknownTagOrDetectorWithKeywords ==
    FactoryCalled =>
        IF lower(detector_type) \notin RecognisedTags
        THEN /\ pc = "raised" /\ err = "ValueError: unknown detector type"
             /\ event_detector = None
        ELSE IF EngbertOrIvtKeywords(lower(detector_type)) \subseteq keywords
        THEN /\ pc = "made" /\ err = "none"
             /\ event_detector = VariantOf(lower(detector_type))
        ELSE /\ pc = "raised" /\ err = "ValueError: not specified"
             /\ event_detector = None

\* the tag "ENGBERT" with both Engbert keywords made an Engbert detector
C21_Witness ==
    /\ FactoryCalled /\ pc = "made"
    /\ detector_type = "ENGBERT"
    /\ keywords = {"derivation_window_size", "lambda_noise_threshold"}
    /\ event_detector = "EngbertSaccadeDetector"

\* the keywords the claim counts as required by a tag's variant, the
\* missing-data detector's missing_value among them
RequiredKeywords(tag) ==
    CASE tag \in {"missing data", "missing_data"} -> {"missing_value"}
      [] OTHER -> EngbertOrIvtKeywords(tag)

\* the keywords a family's entry point hands to the factory (lines 59-61,
\* 97-101, 133-135)
FamilyKeywords(call) ==
    CASE call = "detect_blinks" -> {"missing_value"}
      [] call = "detect_saccades" -> {"derivation_window_size", "lambda_noise_threshold"}
      [] call = "detect_fixations" -> {"velocity_threshold"}
      [] OTHER -> {}

\* C22: the factory fails with the missing-required-parameter ValueError
\* whenever a variant-specific keyword is absent: "engbert" without
\* derivation_window_size or lambda_noise_threshold, "ivt" without
\* velocity_threshold, "missing data" without missing_value; also when the
\* variant is asked for through another family's entry point.
C22_MissingKeywordFails ==
    /\ (FactoryCalled /\ ~(RequiredKeywords(lower(detector_type)) \subseteq keywords)) =>
           /\ pc = "raised" /\ err = "ValueError: not specified"
           /\ event_detector = None
    /\ (/\ detect_call \in {"detect_blinks", "detect_fixations"}
        /\ pc \in {"detected", "raised"}
        /\ detector_type # None
        /\ ~(RequiredKeywords(lower(detector_type)) \subseteq FamilyKeywords(detect_call))) =>
           /\ pc = "raised" /\ err = "ValueError: not specified"

\* ------------------------------------------- the construction of a gaze event
\* a negative time stamp that is not the NaN sentinel
NegativeTime == -2

\* the time stamps an event is constructed from
TimeValues == {0, 2, NaN, Inf, NegativeTime}

\* BlinkEvent(timestamps=...), as extract_event calls it (without sm and
\* viewer_distance): BaseGazeEvent.__init__, lines 15-35
NewGazeEvent ==
    /\ pc = "new"
    /\ LET error == GazeEventError(event_timestamps)
       IN IF error # "none"
          THEN /\ err' = error
               /\ pc' = "raised"
               /\ UNCHANGED gaze_event
          ELSE /\ gaze_event' = <<GazeEvent(BLINK, event_timestamps)>>
               /\ pc' = "constructed"
               /\ UNCHANGED err
    /\ UNCHANGED <<lws, pipeline, factory, event_timestamps, trial_object, workers>>

\* every array of at most MaxSamples time stamps, with the class
\* configuration set or not
InitEvent ==
    /\ NoTrial /\ ExtractorIdle /\ DetectorIdle /\ FactoryIdle /\ NewTrial /\ NoWorkers
    /\ microseconds = <<>> /\ is_blink = <<>> /\ is_saccade = <<>>
    /\ is_fixation = <<>> /\ x = <<>> /\ y = <<>>
    /\ _ScreenMonitor \in Configurations /\ _ViewerDistance \in Configurations
    /\ \E n \in 0 .. MaxSamples : event_timestamps \in [1 .. n -> TimeValues]
    /\ gaze_event = <<>>
    /\ pc = "new" /\ err = "none"

NextEvent == NewGazeEvent

SpecEvent == InitEvent /\ [][NextEvent]_vars

\* -------------------------------- claims about the construction of an event
ConstructionEnded == pc \in {"constructed", "raised"}

\* C23: constructing a gaze event fails with a ValueError, and creates no
\* event, when its time stamps contain a NaN, an infinite or a negative
\* value or are fewer than DEFAULT_MINIMUM_SAMPLES_PER_EVENT; otherwise,
\* with the class configuration set, the event is created, and for every
\* created event start_time is the first time stamp, end_time the last one
\* and duration = end_time - start_time.
C23_EventValidation ==
    ConstructionEnded =>
        IF \/ Len(event_timestamps) < DEFAULT_MINIMUM_SAMPLES_PER_EVENT
           \/ \E k \in 1 .. Len(event_timestamps) :
                  \/ event_timestamps[k] = NaN
                  \/ event_timestamps[k] = Inf
                  \/ event_timestamps[k] = NegativeTime
        THEN /\ pc = "raised"
             /\ err \in {"ValueError: ScreenMonitor", "ValueError: ViewerDistance",
                         "ValueError: samples", "ValueError: NaN", "ValueError: negative"}
             /\ gaze_event = <<>>
        ELSE /\ (_ScreenMonitor # None /\ _ViewerDistance # None) => pc = "constructed"
             /\ pc = "constructed" =>
                    /\ Len(gaze_event) = 1
                    /\ gaze_event[1].start_time = event_timestamps[1]
                    /\ gaze_event[1].end_time = event_timestamps[Len(event_timestamps)]
                    /\ duration(gaze_event[1]) =
                           event_timestamps[Len(event_timestamps)] - event_timestamps[1]

\* with the class configuration set, two time stamps of which one is negative
\* were refused and no event was created
C23_Witness ==
    /\ pc = "raised" /\ err = "ValueError: negative"
    /\ event_timestamps = <<0, NegativeTime>>
    /\ _ScreenMonitor # None /\ _ViewerDistance # None
    /\ gaze_event = <<>>

\* ================================================================= the trial
\* the samples of a trial's behavioral data
TrialSamples == 2

\* the lists given to set_gaze_events: none, one event, two events out of order
GazeEventLists ==
    {<<>>,
     <<GazeEvent(BLINK, <<0, 1>>)>>,
     <<GazeEvent(FIXATION, <<5, 6>>), GazeEvent(BLINK, <<0, 1>>)>>}

\* the setter of LWSTrial.is_processed, lines 45-49
SetIsProcessed ==
    /\ pc = "trial"
    /\ \E value \in BOOLEAN :
         /\ trial_call' = (IF value THEN "is_processed = True" ELSE "is_processed = False")
         /\ IF is_processed /\ ~value
            THEN /\ err' = "RuntimeError"
                 /\ UNCHANGED is_processed
            ELSE /\ is_processed' = value
                 /\ err' = "none"
    /\ UNCHANGED <<pc, gaze_events, lws, pipeline, factory, construction, workers>>

\* mutant: the events of a processed trial can be replaced
SetGazeEvents_AlsoWhenProcessed ==
    /\ pc = "trial"
    /\ trial_call' = "set_gaze_events"
    /\ \E given \in GazeEventLists :
         /\ gaze_events' = SortByStartTime(given)
         /\ err' = "none"
    /\ UNCHANGED <<pc, is_processed, lws, pipeline, factory, construction, workers>>

\* LWSTrial.set_gaze_events, lines 78-84
SetGazeEvents ==
    /\ pc = "trial"
    /\ trial_call' = "set_gaze_events"
    /\ \E given \in GazeEventLists :
         IF is_processed
         THEN /\ err' = "RuntimeError"
              /\ UNCHANGED gaze_events
         ELSE /\ gaze_events' = SortByStartTime(given)
              /\ err' = "none"
    /\ UNCHANGED <<pc, is_processed, lws, pipeline, factory, construction, workers>>

\* LWSTrial.set_behavioral_data, lines 60-63: the new table has its samples
\* and no event columns yet
SetBehavioralData ==
    /\ pc = "trial"
    /\ trial_call' = "set_behavioral_data"
    /\ \E n \in 0 .. TrialSamples :
         IF is_processed
         THEN /\ err' = "RuntimeError"
              /\ UNCHANGED <<microseconds, x, y, is_blink, is_saccade, is_fixation>>
         ELSE /\ microseconds' = SampleTimes(n, 0)
              /\ x' = Zeros(n) /\ y' = Zeros(n)
              /\ is_blink' = <<>> /\ is_saccade' = <<>> /\ is_fixation' = <<>>
              /\ err' = "none"
    /\ UNCHANGED <<pc, is_processed, gaze_events, _ScreenMonitor, _ViewerDistance,
                   lws, extractor, detector, factory, construction, workers>>

\* process_trial, lines 66-73: is_processed is set to False, the three masks
\* are detected, the distances are computed and the four columns are added to
\* the behavioral data in place.  Detection and the distance computation
\* either raise or give masks of the length of the table.
ProcessTrialDetect ==
    /\ pc = "trial"
    /\ trial_call' = "process_trial"
    /\ IF is_processed
       THEN /\ err' = "RuntimeError"
            /\ UNCHANGED <<pc, is_blink, is_saccade, is_fixation>>
       ELSE \/ /\ err' \in {"ValueError: detect_all_events",
                            "ValueError: calculate_angular_distance_for_gaze_data"}
               /\ UNCHANGED <<pc, is_blink, is_saccade, is_fixation>>
            \/ /\ is_blink' \in [1 .. Len(microseconds) -> BOOLEAN]
               /\ is_saccade' \in [1 .. Len(microseconds) -> BOOLEAN]
               /\ is_fixation' \in [1 .. Len(microseconds) -> BOOLEAN]
               /\ pc' = "columns"
               /\ err' = "none"
    /\ UNCHANGED <<is_processed, gaze_events, microseconds, x, y,
                   _ScreenMonitor, _ViewerDistance,
                   lws, extractor, detector, factory, construction, workers>>

\* mutant: is_processed is set to True also when the extraction raises
ProcessTrialExtract_ProcessedOnFailure ==
    /\ pc = "columns"
    /\ \E drop \in BOOLEAN :
         LET extracted == extract_all_events(drop)
         IN /\ drop_outliers' = drop
            /\ is_processed' = TRUE
            /\ IF extracted.raises # "none"
               THEN /\ err' = extracted.raises
                    /\ UNCHANGED gaze_events
               ELSE /\ gaze_events' = SortByStartTime(extracted.value)
                    /\ err' = "none"
    /\ pc' = "trial"
    /\ UNCHANGED <<trial_call, event_type, events_list,
                   lws, samples, detector, factory, construction, workers>>

\* process_trial, lines 76-81: the events are extracted, stored by
\* set_gaze_events, and is_processed is set to True
ProcessTrialExtract ==
    /\ pc = "columns"
    /\ \E drop \in BOOLEAN :
         LET extracted == extract_all_events(drop)
         IN /\ drop_outliers' = drop
            /\ IF extracted.raises # "none"
               THEN /\ err' = extracted.raises
                    /\ UNCHANGED <<gaze_events, is_processed>>
               ELSE /\ gaze_events' = SortByStartTime(extracted.value)
                    /\ is_processed' = TRUE
                    /\ err' = "none"
    /\ pc' = "trial"
    /\ UNCHANGED <<trial_call, event_type, events_list,
                   lws, samples, detector, factory, construction, workers>>

\* a new trial whose behavioral data has at most TrialSamples samples and no
\* event columns, with the class configuration of the events set or not
InitTrial ==
    /\ NoTrial /\ ExtractorIdle /\ DetectorIdle /\ SessionIdle
    /\ pc = "trial" /\ err = "none"
    /\ _ScreenMonitor \in Configurations /\ _ViewerDistance \in Configurations
    /\ \E n \in 0 .. TrialSamples :
         /\ microseconds = SampleTimes(n, 0)
         /\ x = Zeros(n) /\ y = Zeros(n)
    /\ is_blink = <<>> /\ is_saccade = <<>> /\ is_fixation = <<>>

NextTrial ==
    \/ SetIsProcessed
    \/ SetGazeEvents
    \/ SetBehavioralData
    \/ ProcessTrialDetect
    \/ ProcessTrialExtract

SpecTrial == InitTrial /\ [][NextTrial]_vars

\* a trial that is processed, or a trial whose LWS rate is calculated
InitAbort == InitTrial \/ Init

NextAbort == NextTrial \/ Next

SpecAbort == InitAbort /\ [][NextAbort]_vars

\* ====================================================== claims: the trial
\* the behavioral data of the trial: its samples and its event columns
TrialData == <<microseconds, x, y, is_blink, is_saccade, is_fixation>>

\* C24: once is_processed is True it is True in every later state; setting it
\* to False, set_gaze_events, set_behavioral_data and process_trial then
\* raise RuntimeError and leave the stored gaze events and the behavioral
\* data as they were.
C24_ProcessedIsFinal ==
    [][is_processed =>
          /\ is_processed'
          /\ gaze_events' = gaze_events
          /\ TrialData' = TrialData
          /\ (trial_call' # "is_processed = True") => (err' = "RuntimeError")]_vars

\* a processed trial with two events refused set_gaze_events
C24_Witness ==
    /\ is_processed /\ Len(gaze_events) = 2
    /\ trial_call = "set_gaze_events" /\ err = "RuntimeError"

\* ================================================== two trials, two workers
\* the worker threads of one process; each processes a trial of its own
Workers == {1, 2}
ScreenMonitors == {"monitor A", "monitor B"}
ViewerDistances == {"60 cm", "75 cm"}

\* the time stamps of the event a worker builds
WorkerTimestamps == <<0, 1>>

\* BaseGazeEvent.set_screen_monitor(screen_monitor), lines 74-78: worker w
\* hands the class the monitor of its trial
WorkerSetScreenMonitor(w) ==
    /\ pc = "workers"
    /\ worker_pc[w] = "start"
    /\ _ScreenMonitor' = worker_monitor[w]
    /\ worker_pc' = [worker_pc EXCEPT ![w] = "monitor"]
    /\ UNCHANGED <<pc, err, lws, extractor, detector, factory, construction, trial_object,
                   microseconds, is_blink, is_saccade, is_fixation, x, y,
                   _ViewerDistance, worker_monitor, worker_distance, worker_events>>

\* BaseGazeEvent.set_viewer_distance(viewer_distance), lines 80-84
WorkerSetViewerDistance(w) ==
    /\ pc = "workers"
    /\ worker_pc[w] = "monitor"
    /\ _ViewerDistance' = worker_distance[w]
    /\ worker_pc' = [worker_pc EXCEPT ![w] = "distance"]
    /\ UNCHANGED <<pc, err, lws, extractor, detector, factory, construction, trial_object,
                   microseconds, is_blink, is_saccade, is_fixation, x, y,
                   _ScreenMonitor, worker_monitor, worker_distance, worker_events>>

\* worker w builds an event of its trial as extract_event does, without sm
\* and viewer_distance: the constructor (lines 19-26) gives the event no
\* attribute of its own, so its screen monitor and its viewer distance are
\* the class attributes
WorkerBuildEvent(w) ==
    /\ pc = "workers"
    /\ worker_pc[w] = "distance"
    /\ GazeEventError(WorkerTimestamps) = "none"
    /\ worker_events' =
           [worker_events EXCEPT ![w] =
               <<[timestamps |-> WorkerTimestamps,
                  _ScreenMonitor |-> _ScreenMonitor,
                  _ViewerDistance |-> _ViewerDistance]>>]
    /\ worker_pc' = [worker_pc EXCEPT ![w] = "built"]
    /\ UNCHANGED <<pc, err, lws, pipeline, factory, construction, trial_object,
                   worker_monitor, worker_distance>>

\* two workers at the start of their trials; the class attributes are not set
InitWorkers ==
    /\ NoTrial /\ NoTable /\ ExtractorIdle /\ DetectorIdle
    /\ FactoryIdle /\ ConstructionIdle /\ NewTrial
    /\ pc = "workers" /\ err = "none"
    /\ worker_pc = [w \in Workers |-> "start"]
    /\ worker_monitor \in [Workers -> ScreenMonitors]
    /\ worker_distance \in [Workers -> ViewerDistances]
    /\ worker_events = [w \in Workers |-> <<>>]

NextWorkers ==
    \E w \in Workers :
        \/ WorkerSetScreenMonitor(w)
        \/ WorkerSetViewerDistance(w)
        \/ WorkerBuildEvent(w)

SpecWorkers == InitWorkers /\ [][NextWorkers]_vars

\* ============================================== claims: trials in parallel
\* the events worker w builds when no other worker runs
EventsAlone(w) ==
    <<[timestamps |-> WorkerTimestamps,
       _ScreenMonitor |-> worker_monitor[w],
       _ViewerDistance |-> worker_distance[w]]>>

\* C25: there is no shared mutable state between trials: in every
\* interleaving of two workers each trial gets the events it gets when it is
\* processed alone, so the screen monitor and the viewer distance an event is
\* built with are the ones of its own trial.
C25_TrialsIndependent ==
    \A w \in Workers :
        (pc = "workers" /\ worker_pc[w] = "built") => worker_events[w] = EventsAlone(w)

\* C26: when detection, the distance computation or the extraction of
\* process_trial raises, the trial is left with is_processed False and with
\* the gaze events it had before the call; and when identify_lws_instances
\* raises, no label array, filled in part or in whole, is returned.
C26_AbortWithoutPartialOutput ==
    [][/\ (trial_call' = "process_trial" /\ err' \notin {"none", "RuntimeError"}) =>
              (~is_processed' /\ gaze_events' = gaze_events)
       /\ (trial_call' = "process_trial" /\ pc' = "columns") =>
              (~is_processed' /\ gaze_events' = gaze_events)
       /\ (pc' = "raised" /\ err' # "ZeroDivisionError") =>
              (is_lws_instance' = <<>> /\ rate' = <<>>)]_vars

\* process_trial raised in the extraction, on a trial that held one event,
\* and left the event and is_processed = False
C26_Witness ==
    /\ pc = "trial" /\ trial_call = "process_trial"
    /\ err = "ValueError: samples"
    /\ ~is_processed
    /\ gaze_events = <<GazeEvent(BLINK, <<0, 1>>)>>

\* ================================================ claims: the backward pass
\* the label of the k-th fixation of the trial
LabelOfFixation(k) == is_lws_instance[fixation_idxs[k]]

\* C27: identify_lws_instances classifies the fixations in one backward
\* pass, in strictly descending order of position: when the pair (i, i + 1)
\* is reached every later fixation has its label, True or False, and neither
\* fixation i nor an earlier one has been labeled; the step labels fixation
\* i and no other position, and no label that was assigned changes again.
C27_SingleBackwardPass ==
    [][/\ pc = "loop" =>
              /\ \A k \in 1 .. Len(fixation_idxs) :
                     IF k > pair THEN LabelOfFixation(k) \in {0, 1}
                     ELSE isnan(LabelOfFixation(k))
              /\ is_lws_instance'[fixation_idxs[pair]] \in {0, 1}
              /\ \A p \in 1 .. Len(events) :
                     p # fixation_idxs[pair] => is_lws_instance'[p] = is_lws_instance[p]
       /\ pc \in {"loop", "returned"} =>
              \A p \in 1 .. Len(events) :
                  ~isnan(is_lws_instance[p]) => is_lws_instance'[p] = is_lws_instance[p]
       /\ pc' = "returned" =>
              \A k \in 1 .. Len(fixation_idxs) :
                  is_lws_instance'[fixation_idxs[k]] \in {0, 1}]_vars

\* the second of three fixations has been labeled after the third, and the
\* first one is still to be labeled
C27_Witness ==
    /\ pc = "loop" /\ pair = 1
    /\ Len(fixation_idxs) = 3
    /\ LabelOfFixation(3) = 1 /\ LabelOfFixation(2) = 0
    /\ isnan(LabelOfFixation(1))

\* ======================================================= claims: the rate
\* C28: every fixation labeled True is within the proximity threshold of its
\* closest target and does not end with the trial; so the number of LWS
\* instances never exceeds the number of target-proximal fixations, the rate
\* of calculate_lws_rate lies in [0, 1] for either denominator, and its
\* ZeroDivisionError is never raised.
C28_RateWithinUnitInterval ==
    /\ \A p \in 1 .. Len(is_lws_instance) :
           is_lws_instance[p] = 1 =>
               /\ FLe(events[p].visual_angle_to_closest_target, proximity_threshold)
               /\ events[p].end_time # trial_end_time
    /\ pc \in {"returned", "done"} =>
           nansum(is_lws_instance) <= Len(CountedFixations(TRUE, proximity_threshold))
    /\ pc = "done" => (0 <= rate[1] /\ rate[1] <= rate[2])
    /\ err # "ZeroDivisionError"

\* ================================================= claims: the Engbert mask
\* C29: for every input of valid length EngbertSaccadeDetector.detect
\* returns a mask and does not raise; without a candidate, and when the
\* minimum-duration filter removes every merged run, the mask is all False
\* and as long as x.
C29_DetectReturnsMask ==
    /\ pc # "raised"
    /\ (pc = "detected" /\ saccades_start_end_idxs = <<>>) =>
           is_detected = zeros(Len(x))

\* the 0-based indices a and b hold candidates that end up in one run: every
\* two successive candidates from a to b are at most
\* _min_samples_between_events indices apart
Linked(a, b) ==
    /\ a <= b
    /\ is_saccade_candidate[a + 1] /\ is_saccade_candidate[b + 1]
    /\ \A p \in a .. b, q \in a .. b :
           (/\ p < q
            /\ is_saccade_candidate[p + 1] /\ is_saccade_candidate[q + 1]
            /\ \A m \in (p + 1) .. (q - 1) : ~is_saccade_candidate[m + 1])
           => q - p <= _min_samples_between_events

\* a and b are the first and the last candidate of a merged run
MergedRun(a, b) ==
    /\ Linked(a, b)
    /\ \A c \in 0 .. (Len(is_saccade_candidate) - 1) :
           (c < a \/ c > b) => ~(Linked(c, b) \/ Linked(a, c))

\* the merged run passes the minimum-duration filter
SurvivingRun(a, b) ==
    MergedRun(a, b) /\ b - a >= _min_samples_within_event

\* C30: in the mask that detect returns a sample is True iff its index lies
\* between the first and the last candidate, both included, of a merged run
\* that survives the filter; so the other samples within such a run are True
\* and the candidates of a discarded run are False.
C30_MaskOfSurvivingRuns ==
    pc = "detected" =>
        /\ Len(is_detected) = Len(is_saccade_candidate)
        /\ \A i \in 0 .. (Len(is_detected) - 1) :
               is_detected[i + 1] <=>
                   \E a \in 0 .. i, b \in i .. (Len(is_detected) - 1) : SurvivingRun(a, b)

\* two candidates two indices apart were merged and the sample between them
\* is True in the mask
C30_Witness ==
    /\ pc = "detected"
    /\ _min_samples_between_events = 2 /\ _min_samples_within_event = 1
    /\ is_saccade_candidate = <<TRUE, FALSE, TRUE, FALSE, FALSE>>
    /\ is_detected = <<TRUE, TRUE, TRUE, FALSE, FALSE>>
====
